---- MODULE Spec2Model ----
(***************************************************************************)
(* A model of btdu-rs: the btrfs tree-search pagination loop, the search   *)
(* key successor, the SampleTree prefix tree (add_sample / add / sub /     *)
(* print), the chunk map built by the sampler, the sliding window of       *)
(* samples, the sampling loop with the root resolver, the PtrReader cursor *)
(* and the extent accounting pass of subvol_usage.                         *)
(*                                                                         *)
(* The fields of a key are u64 / u8 / u64 in the source.  The model keeps  *)
(* the wrap-around arithmetic and scales the widths down: a field ranges   *)
(* over 0..MaxX and arithmetic on it is modulo MaxX + 1.                   *)
(***************************************************************************)
EXTENDS Integers, Sequences, FiniteSets, TLC

VARIABLES
    \* ---- SearchKey::next applied to one key (SpecKey)
    key,                \* the key next() is called on
    probe,              \* another key, a candidate to lie between key and next(key)
    succ,               \* <<>> before the call, <<next(key)>> after it
    \* ---- tree_search_cb (SpecSearch)
    records,            \* the keys of the records the kernel holds in the tree
    range,              \* the RangeInclusive<SearchKey> argument: [start, end]
    args_key,           \* args.key: [min, max], the search key struct passed to the kernel
    nr_items,           \* args.key.nr_items as left by the kernel
    buf,                \* args.buf decoded: the headers of the batch the kernel returned
    idx,                \* position of the for loop walking the batch
    ptr,                \* the cursor of the walk, as an offset from args.buf
    last_search_header, \* <<>> for the null pointer, <<h>> otherwise
    calls,              \* the headers the callback has been invoked with, in order
    nioctl,             \* number of search control operations issued so far
    ioctl_ret,          \* what the last control operation returned: "none" | "ok" | "err"
    pc,                 \* "ioctl" | "walk" | "done" | "error" | "abort"
    result,             \* "running" | "Ok" | "Err"
    \* ---- SampleTree (SpecTree, SpecPrint)
    tree_a,             \* a SampleTree A, built by add_sample
    added_a,            \* the bag of the paths add_sample was called with on A
    tree_b,             \* a SampleTree B, built by add_sample
    added_b,            \* the bag of the paths add_sample was called with on B
    tree_c,             \* a copy of A, to which B is added and then subtracted
    tree_d,             \* a copy of B, to which A is added
    stage,              \* how far the add / sub program on tree_c and tree_d has come
    \* ---- chunk enumeration and chunk lookup of the sampler (SpecChunks)
    chunks,             \* Vec<ChunkInfo>
    total_chunk_length, \* running sum of the chunk lengths
    cnt,                \* number of records the chunk tree search delivered
    chunk_ptr,          \* the cursor of the chunk tree search, as an offset from args.buf
    random_pos,         \* the position drawn in the current sampling iteration
    random_chunk,       \* <<>> when find() found nothing, <<index into chunks>> otherwise
    total_samples,      \* iterations of the sampling loop so far
    chunk_pc,           \* "enumerate" | "sample" | "error" | "panic" | "abort"
    \* ---- AggregatingWindow (SpecWindow)
    window,             \* the retained samples, oldest first
    cur,                \* the running aggregate: total_samples, bytes_per_sample, tree
    bytes_per_sample_sum, \* sum of bytes_per_sample over the retained samples
    win_added,          \* every sample given to add so far, in order
    win_pc,             \* "run" while the window is in use
    \* ---- SampleTree::print (SpecPrint)
    p_tree,             \* the tree that is printed
    p_out,              \* the lines written to w, in order
    p_pc,               \* "build" | "printed"
    \* ---- the sampling loop of _main (SpecSampling)
    s_table,            \* the ROOT_BACKREF records of the ROOT tree
    s_roots,            \* roots.m
    s_tree,             \* sample_tree
    s_total,            \* total_samples
    s_log,              \* the iterations so far: chunk type, address, LogicalIno result
    s_pc,               \* "run" | "panic" | "stack_overflow" | "abort"
    \* ---- PtrReader (SpecReader)
    rd,                 \* the reader: pos and end
    rd_len,             \* L, the length of the buffer the reader was made over
    rd_sizes,           \* the sizes of the successful reads, in order
    rd_last,            \* <<>> or <<the last call: size, reader before, outcome>>
    rd_pc,              \* "run" while the reader is in use, "abort" for a process ended in next
    \* ---- extent accounting of subvol_usage (SpecExtents)
    e_records,          \* the records of the extent tree, in key order
    e_idx,              \* how many of them the callback has been given
    e_ptr,              \* the cursor of the search, as an offset from args.buf
    root_usage,         \* HashMap<(root, objectid), bytes>
    e_pc,               \* "scan" | "done" | "error" | "panic" | "abort"
    \* ---- a SampleTree under add_sample, add and sub (SpecOps)
    o_tree,             \* the tree the operations are applied to
    o_added,            \* the trees added to it and not subtracted since
    o_n,                \* the number of operations so far
    o_last,             \* the last operation ("add_sample" | "add" | "sub"), the tree before it, the tree given
    \* ---- Roots (SpecRoots)
    r_table,            \* the ROOT_BACKREF records of the ROOT tree
    r_m,                \* roots.m
    r_calls,            \* every get_root call so far: id, map before, outcome
    r_pc                \* "run" | "panic" | "stack_overflow" | "abort"

keyVars    == <<key, probe, succ>>
treeVars   == <<tree_a, added_a, tree_b, added_b, tree_c, tree_d, stage>>
searchVars == <<records, range, args_key, nr_items, buf, idx, ptr, last_search_header,
                calls, nioctl, ioctl_ret, pc, result>>
chunkVars  == <<chunks, total_chunk_length, cnt, chunk_ptr, random_pos, random_chunk,
                total_samples, chunk_pc>>
windowVars == <<window, cur, bytes_per_sample_sum, win_added, win_pc>>
printVars  == <<p_tree, p_out, p_pc>>
samplingVars == <<s_table, s_roots, s_tree, s_total, s_log, s_pc>>
readerVars == <<rd, rd_len, rd_sizes, rd_last, rd_pc>>
extentsVars == <<e_records, e_idx, e_ptr, root_usage, e_pc>>
opsVars    == <<o_tree, o_added, o_n, o_last>>
rootsVars  == <<r_table, r_m, r_calls, r_pc>>
vars       == <<keyVars, searchVars, treeVars, chunkVars, windowVars,
                printVars, samplingVars, readerVars, extentsVars, opsVars,
                rootsVars>>

\* what the actions of one part leave alone
notKey     == <<searchVars, treeVars, chunkVars, windowVars, printVars,
                samplingVars, readerVars, extentsVars, opsVars, rootsVars>>
notSearch  == <<keyVars, treeVars, chunkVars, windowVars, printVars,
                samplingVars, readerVars, extentsVars, opsVars, rootsVars>>
notTree    == <<keyVars, searchVars, chunkVars, windowVars, printVars,
                samplingVars, readerVars, extentsVars, opsVars, rootsVars>>
notChunks  == <<keyVars, searchVars, treeVars, windowVars, printVars,
                samplingVars, readerVars, extentsVars, opsVars, rootsVars>>
notWindow  == <<keyVars, searchVars, treeVars, chunkVars, printVars,
                samplingVars, readerVars, extentsVars, opsVars, rootsVars>>
notPrint   == <<keyVars, searchVars, treeVars, chunkVars, windowVars,
                samplingVars, readerVars, extentsVars, opsVars, rootsVars>>
notSampling == <<keyVars, searchVars, treeVars, chunkVars, windowVars,
                 printVars, readerVars, extentsVars, opsVars, rootsVars>>
notReader  == <<keyVars, searchVars, treeVars, chunkVars, windowVars,
                printVars, samplingVars, extentsVars, opsVars, rootsVars>>
notExtents == <<keyVars, searchVars, treeVars, chunkVars, windowVars,
                printVars, samplingVars, readerVars, opsVars, rootsVars>>
notOps     == <<keyVars, searchVars, treeVars, chunkVars, windowVars,
                printVars, samplingVars, readerVars, extentsVars, rootsVars>>
notRoots   == <<keyVars, searchVars, treeVars, chunkVars, windowVars,
                printVars, samplingVars, readerVars, extentsVars, opsVars>>

-----------------------------------------------------------------------------
(* Bounds of the model.                                                    *)

\* largest objectid (stands for u64::MAX)
MaxObjectid == 1
\* largest type (stands for u8::MAX)
MaxTyp == 1
\* largest offset (stands for u64::MAX)
MaxOffset == 1
\* at most this many records in the searched tree
MaxRecords == 2
\* at most this many search control operations are followed in one run
MaxIoctls == 3
\* longest path (number of components) given to add_sample
MaxDepth == 2
\* at most this many add_sample calls on tree A
MaxSamplesA == 2
\* at most this many add_sample calls on tree B
MaxSamplesB == 1
\* at most this many records in the chunk tree
MaxChunkRecords == 2
\* longest chunk
MaxChunkLength == 2
\* at most this many iterations of the sampling loop (the samples argument)
MaxDraws == 1
\* capacity K of the AggregatingWindow
WindowCapacity == 2
\* at most this many calls of AggregatingWindow.add
MaxWindowAdds == 4
\* add_samples is called while the printed tree's total stays within this
MaxPrintTotal == 3
\* largest weight n given to add_samples
MaxWeight == 2
\* at most this many iterations of the sampling loop with its body
MaxSamples == 2
\* at most this many add_sample, add and sub calls on one tree
MaxOps == 3
\* at most this many get_root calls on one resolver
MaxGetRoots == 3
\* at most this many records in the extent tree
MaxExtentRecords == 2
\* longest buffer a PtrReader is made over
MaxBufLen == 30
\* at most this many next calls on one PtrReader
MaxReads == 3

-----------------------------------------------------------------------------
(* SearchKey                                                               *)

SearchKey(objectid, typ, offset) ==
    [objectid |-> objectid, typ |-> typ, offset |-> offset]

Keys == [objectid : 0..MaxObjectid, typ : 0..MaxTyp, offset : 0..MaxOffset]

MIN == SearchKey(0, 0, 0)
MAX == SearchKey(MaxObjectid, MaxTyp, MaxOffset)

ALL == [start |-> MIN, end |-> MAX]

range_fixed_id(objectid) ==
    [start |-> SearchKey(objectid, 0, 0), end |-> SearchKey(objectid, MaxTyp, MaxOffset)]

range_fixed_id_type(objectid, typ) ==
    [start |-> SearchKey(objectid, typ, 0), end |-> SearchKey(objectid, typ, MaxOffset)]

\* the search ranges of a run: the three constructors, and the ranges open at
\* one end
Ranges ==
    {ALL}
    \cup {range_fixed_id(i) : i \in 0..MaxObjectid}
    \cup {range_fixed_id_type(i, t) : i \in 0..MaxObjectid, t \in 0..MaxTyp}
    \cup {[start |-> k, end |-> MAX] : k \in Keys}
    \cup {[start |-> MIN, end |-> k] : k \in Keys}

\* uN::carrying_add(a, rhs, carry) on a field with values 0..max:
\* <<wrapped sum, carry out>>
carrying_add(a, rhs, carry, max) ==
    LET s == a + rhs + (IF carry THEN 1 ELSE 0)
    IN  <<s % (max + 1), s > max>>

\* a plausible slip in next(): the carry out of offset is dropped
next_no_carry(k) ==
    SearchKey(k.objectid, k.typ, (k.offset + 1) % (MaxOffset + 1))

\* SearchKey::next
next(k) ==
    LET o == carrying_add(k.offset, 1, FALSE, MaxOffset)
        t == carrying_add(k.typ, 0, o[2], MaxTyp)
        i == carrying_add(k.objectid, 0, t[2], MaxObjectid)
    IN  SearchKey(i[1], t[1], o[1])

\* SearchKey::from(&btrfs_ioctl_search_header): type_ (u32) is cast to u8
from(h) ==
    SearchKey(h.objectid, h.typ % (MaxTyp + 1), h.offset)

\* the lexicographic (objectid, type, offset) order of keys
KeyLess(a, b) ==
    \/ a.objectid < b.objectid
    \/ a.objectid = b.objectid /\ a.typ < b.typ
    \/ a.objectid = b.objectid /\ a.typ = b.typ /\ a.offset < b.offset

KeyLeq(a, b) == a = b \/ KeyLess(a, b)

-----------------------------------------------------------------------------
(* The kernel's answer to one search control operation.                    *)

\* the records whose key lies in [lo, hi]
InRange(recs, lo, hi) == {r \in recs : KeyLeq(lo, r) /\ KeyLeq(r, hi)}

RECURSIVE SubsetsUpTo(_, _)
\* the subsets of S with at most n elements: the trees the kernel may hold
SubsetsUpTo(S, n) ==
    IF n = 0 THEN {{}}
    ELSE LET P == SubsetsUpTo(S, n - 1)
         IN  P \cup {p \cup {x} : p \in P, x \in S}

RECURSIVE SortedKeys(_)
\* the keys of a set in ascending order, as the kernel walks the tree
SortedKeys(S) ==
    IF S = {} THEN <<>>
    ELSE LET m == CHOOSE x \in S : \A y \in S : KeyLeq(x, y)
         IN  <<m>> \o SortedKeys(S \ {m})

\* what the kernel may put in the buffer for the search key sk: no record when
\* none matches, otherwise any non-empty prefix of the matching records in key
\* order (how many fit into the buffer is the kernel's choice)
KernelBatches(sk) ==
    LET m == SortedKeys(InRange(records, sk.min, sk.max))
    IN  IF m = <<>> THEN {<<>>}
        ELSE {SubSeq(m, 1, n) : n \in 1..Len(m)}

\* size_of::<btrfs_ioctl_search_header>(): three u64 and two u32 fields
SizeofSearchHeader == 32

\* align_of::<btrfs_ioctl_search_header>(); args.buf itself is aligned to it
AlignofSearchHeader == 8

\* the payload lengths (search_header.len) the kernel may report for a record
PayloadLens == {0, 5}

\* *(p as *const T) for a byte pointer p at address `at` and a T of the
\* given alignment. Dereferencing at an address that is not a multiple of
\* the alignment is undefined behaviour: a build with debug assertions ends
\* the process there, a build without them reads the value
deref_outcomes(at, align) ==
    IF at % align = 0 THEN {"read"} ELSE {"read", "abort"}

\* (*search_header).len for the header at offset `at` of args.buf
deref_search_header(at) == deref_outcomes(at, AlignofSearchHeader)

-----------------------------------------------------------------------------
(* SampleTree                                                              *)

\* the path components used in the runs
Names == {"a", "b"}

RECURSIVE PathsUpTo(_)
\* the paths of at most n components
PathsUpTo(n) ==
    IF n = 0 THEN {<<>>}
    ELSE LET P == PathsUpTo(n - 1)
         IN  P \cup {<<k>> \o p : k \in Names, p \in {q \in P : Len(q) = n - 1}}

Paths == PathsUpTo(MaxDepth)

\* HashMap::new()
NoChildren == [k \in {} |-> 0]

\* SampleTree::new
new == [total |-> 0, children |-> NoChildren]

\* self.children after get_or_create_child(k): the child k, created empty when
\* missing
get_or_create_child(self, k) ==
    IF k \in DOMAIN self.children THEN self.children[k] ELSE new

RECURSIVE add_sample_leaf_only(_, _)
\* a plausible slip in add_sample: only the last node of the chain is counted
add_sample_leaf_only(self, path) ==
    IF path = <<>> THEN [self EXCEPT !.total = self.total + 1]
    ELSE [self EXCEPT !.children =
            [k \in DOMAIN self.children \cup {Head(path)} |->
                IF k = Head(path)
                THEN add_sample_leaf_only(get_or_create_child(self, k), Tail(path))
                ELSE self.children[k]]]

RECURSIVE add_sample(_, _)
\* SampleTree::add_sample
add_sample(self, path) ==
    [total    |-> self.total + 1,
     children |->
        IF path = <<>> THEN self.children
        ELSE [k \in DOMAIN self.children \cup {Head(path)} |->
                IF k = Head(path)
                THEN add_sample(get_or_create_child(self, k), Tail(path))
                ELSE self.children[k]]]

RECURSIVE add_missing_only(_, _)
\* a plausible slip in add: a child present on both sides keeps self's counts
add_missing_only(self, other) ==
    [total    |-> self.total + other.total,
     children |->
        [k \in DOMAIN self.children \cup DOMAIN other.children |->
            IF k \in DOMAIN self.children THEN self.children[k]
            ELSE add_missing_only(new, other.children[k])]]

RECURSIVE add(_, _)
\* SampleTree::add
add(self, other) ==
    [total    |-> self.total + other.total,
     children |->
        [k \in DOMAIN self.children \cup DOMAIN other.children |->
            IF k \in DOMAIN other.children
            THEN add(get_or_create_child(self, k), other.children[k])
            ELSE self.children[k]]]

\* a plausible slip in sub: the children are not visited
sub_root_only(self, other) ==
    IF self.total - other.total = 0 THEN new
    ELSE [self EXCEPT !.total = self.total - other.total]

RECURSIVE sub_keeps_children(_, _)
\* a plausible slip in sub: a node that reaches total 0 keeps its children
sub_keeps_children(self, other) ==
    [total    |-> self.total - other.total,
     children |->
        [k \in DOMAIN self.children |->
            IF k \in DOMAIN other.children
            THEN sub_keeps_children(self.children[k], other.children[k])
            ELSE self.children[k]]]

RECURSIVE sub(_, _)
\* SampleTree::sub
sub(self, other) ==
    LET total == self.total - other.total
    IN  IF total = 0 THEN [total |-> 0, children |-> NoChildren]
        ELSE [total    |-> total,
              children |->
                [k \in DOMAIN self.children |->
                    IF k \in DOMAIN other.children
                    THEN sub(self.children[k], other.children[k])
                    ELSE self.children[k]]]

RECURSIVE HasNode(_, _)
\* whether the tree has a node at the path
HasNode(t, path) ==
    \/ path = <<>>
    \/ /\ Head(path) \in DOMAIN t.children
       /\ HasNode(t.children[Head(path)], Tail(path))

RECURSIVE NodeAt(_, _)
\* the node at a path the tree has
NodeAt(t, path) ==
    IF path = <<>> THEN t ELSE NodeAt(t.children[Head(path)], Tail(path))

\* the total at a path, 0 where the tree has no node
TotalAt(t, path) == IF HasNode(t, path) THEN NodeAt(t, path).total ELSE 0

RECURSIVE NodePaths(_)
\* the paths of all nodes of a tree
NodePaths(t) ==
    {<<>>} \cup UNION {{<<k>> \o p : p \in NodePaths(t.children[k])} :
                        k \in DOMAIN t.children}

\* the path of the parent of the node at a path of at least one component
ParentPath(path) == SubSeq(path, 1, Len(path) - 1)

\* p is a prefix of q
IsPrefix(p, q) == Len(p) <= Len(q) /\ SubSeq(q, 1, Len(p)) = p

-----------------------------------------------------------------------------
(* The paths add_sample was called with, kept to state what a tree counts. *)

\* no add_sample call yet
NoPaths == [p \in {} |-> 0]

\* the number of times path p is in the bag
CountOf(bag, p) == IF p \in DOMAIN bag THEN bag[p] ELSE 0

\* the bag with one more copy of p
WithPath(bag, p) ==
    [q \in DOMAIN bag \cup {p} |-> CountOf(bag, q) + (IF q = p THEN 1 ELSE 0)]

RECURSIVE SumOver(_, _)
\* the number of paths in the bag that satisfy the test set S
SumOver(bag, S) ==
    IF S = {} THEN 0
    ELSE LET p == CHOOSE x \in S : TRUE
         IN  CountOf(bag, p) + SumOver(bag, S \ {p})

\* the number of calls recorded in the bag
Calls(bag) == SumOver(bag, DOMAIN bag)

\* the number of added paths that have path as a prefix
Through(bag, path) == SumOver(bag, {q \in DOMAIN bag : IsPrefix(path, q)})

-----------------------------------------------------------------------------
(* The chunk map of the sampler                                            *)

\* the record types of the chunk tree: chunk items, and anything else
ChunkTreeTypes == {"CHUNK_ITEM", "OTHER"}

\* chunk.type_ & BTRFS_BLOCK_GROUP_TYPE_MASK
BlockGroupTypes == {"DATA", "METADATA", "SYSTEM"}

\* size_of::<btrfs_chunk>(), one stripe included: the payload of a chunk item
\* with one stripe
SizeofChunk == 80

\* search_header.len of a record of the chunk tree: the chunk struct for a
\* chunk item; for another record no payload or, as for a DEV_ITEM, 98 bytes
chunk_tree_payload_lens(type_) ==
    IF type_ = "CHUNK_ITEM" THEN {SizeofChunk} ELSE {0, 98}

\* sh.offset of a chunk item: the logical address the chunk starts at
ChunkOffsets == {0, 1000}

ChunkInfo(pos, chunk_offset, chunk_length, chunk_type) ==
    [pos |-> pos, chunk_offset |-> chunk_offset,
     chunk_length |-> chunk_length, chunk_type |-> chunk_type]

\* a plausible slip in the callback: pos is taken after the length was added
push_chunk_pos_after(cs, total, sh_offset, chunk_length, chunk_type) ==
    Append(cs, ChunkInfo(total + chunk_length, sh_offset, chunk_length, chunk_type))

\* chunks.push(ChunkInfo{pos: total_chunk_length, ..})
push_chunk(cs, total, sh_offset, chunk_length, chunk_type) ==
    Append(cs, ChunkInfo(total, sh_offset, chunk_length, chunk_type))

\* the closure of the lookup: random_pos >= c.pos && random_pos < c.pos + c.chunk_length
chunk_holds(c, pos) == pos >= c.pos /\ pos < c.pos + c.chunk_length

\* chunks.iter().find(..): the first chunk that holds the position, as
\* <<index>>, or <<>> for None
find_chunk(cs, pos) ==
    LET hits == {i \in 1..Len(cs) : chunk_holds(cs[i], pos)}
    IN  IF hits = {} THEN <<>>
        ELSE <<CHOOSE i \in hits : \A j \in hits : i <= j>>

RECURSIVE LengthSum(_, _)
\* the sum of the lengths of the first n chunks
LengthSum(cs, n) ==
    IF n = 0 THEN 0 ELSE LengthSum(cs, n - 1) + cs[n].chunk_length

-----------------------------------------------------------------------------
(* BtrfsSample and AggregatingWindow                                       *)

RECURSIVE tree_of(_)
\* the tree of a sampling pass that recorded the given paths, in order
tree_of(paths) ==
    IF paths = <<>> THEN new
    ELSE add_sample(tree_of(SubSeq(paths, 1, Len(paths) - 1)), paths[Len(paths)])

\* what the sampling passes of the runs recorded
RecordedPaths ==
    { <<>>,
      << <<"a">> >>,
      << <<"b">> >>,
      << <<"a", "a">> >>,
      << <<"a", "b">> >>,
      << <<"a">>, <<"a", "b">> >> }

BtrfsSample(total_samples_, bytes_per_sample, tree) ==
    [total_samples |-> total_samples_, bytes_per_sample |-> bytes_per_sample,
     tree |-> tree]

\* the samples given to the window: the tree of a pass, a sample count that
\* covers the recorded paths and the dropped iterations, and a resolution that
\* differs between the samples
Samples ==
    {BtrfsSample(Len(ps) + dropped, 1 + dropped, tree_of(ps)) :
        ps \in RecordedPaths, dropped \in {0, 1}}

\* the aggregate of an empty window
NoSamples == [total_samples |-> 0, bytes_per_sample |-> <<0, 0>>, tree |-> new]

\* AggregatingWindow.add(sample): the window state <<window, cur, sum>> after
\* the call.  bytes_per_sample of cur is kept as the pair
\* <<bytes_per_sample_sum, |window|^2>> of the quotient.
window_add(w, c, bsum, sample, capacity) ==
    LET w1    == Append(w, sample)
        n1    == c.total_samples + sample.total_samples
        t1    == add(c.tree, sample.tree)
        b1    == bsum + sample.bytes_per_sample
        evict == Len(w1) > capacity
        old   == Head(w1)
        w2    == IF evict THEN Tail(w1) ELSE w1
        n2    == IF evict THEN n1 - old.total_samples ELSE n1
        t2    == IF evict THEN sub(t1, old.tree) ELSE t1
        b2    == IF evict THEN b1 - old.bytes_per_sample ELSE b1
    IN  <<w2,
          [total_samples |-> n2,
           bytes_per_sample |-> <<b2, Len(w2) * Len(w2)>>,
           tree |-> t2],
          b2>>

RECURSIVE SumSamples(_, _)
\* the sum of the total_samples of the first n samples of a sequence
SumSamples(w, n) ==
    IF n = 0 THEN 0 ELSE SumSamples(w, n - 1) + w[n].total_samples

RECURSIVE SumTotalsAt(_, _, _)
\* the sum over the first n samples of a sequence of the tree total at a path
SumTotalsAt(w, n, path) ==
    IF n = 0 THEN 0 ELSE SumTotalsAt(w, n - 1, path) + TotalAt(w[n].tree, path)

RECURSIVE SumTrees(_, _)
\* the trees of the first n samples of a sequence, summed by SampleTree::add
SumTrees(w, n) ==
    IF n = 0 THEN new ELSE add(SumTrees(w, n - 1), w[n].tree)

\* the last n elements of a sequence
LastOf(q, n) == SubSeq(q, Len(q) - n + 1, Len(q))

\* the smaller of two numbers
Min(x, y) == IF x < y THEN x ELSE y

-----------------------------------------------------------------------------
(* SampleTree::add_samples and SampleTree::print                           *)

RECURSIVE add_samples(_, _, _)
\* SampleTree::add_samples
add_samples(self, path, n) ==
    [total    |-> self.total + n,
     children |->
        IF path = <<>> THEN self.children
        ELSE [k \in DOMAIN self.children \cup {Head(path)} |->
                IF k = Head(path)
                THEN add_samples(get_or_create_child(self, k), Tail(path), n)
                ELSE self.children[k]]]

\* the orders in which self.children.iter() may yield the children
IterOrders(children) ==
    LET n == Cardinality(DOMAIN children)
    IN  {o \in [1..n -> DOMAIN children] : \A i, j \in 1..n : i # j => o[i] # o[j]}

RECURSIVE sort_ascending(_, _)
\* a plausible slip in the sort: the Reverse is left out
sort_ascending(children, c) ==
    IF c = <<>> THEN <<>>
    ELSE LET rest == sort_ascending(children, Tail(c))
             x    == Head(c)
             ahead == {i \in 1..Len(rest) :
                        \A j \in 1..i : children[rest[j]].total < children[x].total}
             n    == Cardinality(ahead)
         IN  SubSeq(rest, 1, n) \o <<x>> \o SubSeq(rest, n + 1, Len(rest))

RECURSIVE sort_by_key_reverse_total(_, _)
\* c.sort_by_key(|(_, v)| Reverse(v.total)): a stable sort, largest total
\* first, equal totals in the order they had in c
sort_by_key_reverse_total(children, c) ==
    IF c = <<>> THEN <<>>
    ELSE LET rest == sort_by_key_reverse_total(children, Tail(c))
             x    == Head(c)
             ahead == {i \in 1..Len(rest) :
                        \A j \in 1..i : children[rest[j]].total > children[x].total}
             n    == Cardinality(ahead)
         IN  SubSeq(rest, 1, n) \o <<x>> \o SubSeq(rest, n + 1, Len(rest))

\* disk_fraction < min_disk_fraction, for min_disk_fraction = Some(num / den)
\* given as <<num, den>>, None given as <<>>.  A division by total_samples = 0
\* gives NaN or infinity, which is not below any fraction.
below_min_fraction(total, total_samples_, min_disk_fraction) ==
    /\ min_disk_fraction # <<>>
    /\ total_samples_ > 0
    /\ total * min_disk_fraction[2] < min_disk_fraction[1] * total_samples_

\* the line written for a node: the indentation, the name, the total and the
\* bytes it stands for
Line(depth, name, total, bytes_per_sample) ==
    [depth |-> depth, name |-> name, total |-> total,
     disk_bytes |-> total * bytes_per_sample]

RECURSIVE print_internal(_, _, _, _, _, _)
RECURSIVE print_children(_, _, _, _, _, _)
\* SampleTree::print_internal: the outputs it may write, one for every order
\* in which the hash maps may yield the children
print_internal(self, total_samples_, bytes_per_sample, min_disk_fraction, name, depth) ==
    IF below_min_fraction(self.total, total_samples_, min_disk_fraction)
    THEN {<<>>}
    ELSE UNION {
            {<<Line(depth, name, self.total, bytes_per_sample)>> \o rest :
                rest \in print_children(self.children,
                                        sort_by_key_reverse_total(self.children, o),
                                        total_samples_, bytes_per_sample,
                                        min_disk_fraction, depth + 1)} :
            o \in IterOrders(self.children)}

\* the for loop over the sorted children
print_children(children, c, total_samples_, bytes_per_sample, min_disk_fraction, depth) ==
    IF c = <<>> THEN {<<>>}
    ELSE {first \o rest :
            first \in print_internal(children[Head(c)], total_samples_,
                                     bytes_per_sample, min_disk_fraction,
                                     Head(c), depth),
            rest \in print_children(children, Tail(c), total_samples_,
                                    bytes_per_sample, min_disk_fraction, depth)}

\* SampleTree::print
print(self, total_samples_, bytes_per_sample, min_disk_fraction) ==
    print_internal(self, total_samples_, bytes_per_sample, min_disk_fraction, "", 0)

\* the line of the parent of line i: the nearest line before it that is one
\* level less indented (0 when there is none)
ParentLine(out, i) ==
    LET before == {j \in 1..(i - 1) : out[j].depth = out[i].depth - 1}
    IN  IF before = {} THEN 0 ELSE CHOOSE j \in before : \A k \in before : k <= j

RECURSIVE LinePath(_, _)
\* the path of the node line i stands for, read off the indentation
LinePath(out, i) ==
    IF out[i].depth = 0 \/ ParentLine(out, i) = 0 THEN <<>>
    ELSE LinePath(out, ParentLine(out, i)) \o <<out[i].name>>

-----------------------------------------------------------------------------
(* Roots: the memoized map from a root id to its path components           *)

\* the id Roots::new seeds the map with
FsTreeId == 5

\* BTRFS_ROOT_TREE_OBJECTID
RootTreeId == 1

\* the root ids met in a run
RootIds == {RootTreeId, FsTreeId, 256, 257, 258}

\* a ROOT_BACKREF record of the ROOT tree: key (root, ROOT_BACKREF, parent)
\* and the name held in its btrfs_root_ref
Backref(root, parent, name) == [root |-> root, parent |-> parent, name |-> name]

\* the ROOT trees a run may meet: a chain below root 5, a root with two
\* backref records and a root whose parent has no record, and parent links
\* that form a cycle
BackrefTables ==
    { {Backref(256, FsTreeId, "a"), Backref(257, 256, "b")},
      {Backref(256, FsTreeId, "a"), Backref(257, FsTreeId, "b"),
       Backref(257, 256, "a"), Backref(258, 1, "b")},
      {Backref(256, 257, "a"), Backref(257, 256, "b"), Backref(258, FsTreeId, "a")} }

\* size_of::<btrfs_root_ref>(): dirid, sequence, name_len (packed)
SizeofRootRef == 18

\* search_header.len of a ROOT_BACKREF record: the btrfs_root_ref and the
\* name after it (the names of the model have one character)
backref_payload_len(ref) == SizeofRootRef + 1

RECURSIVE backrefs_in_key_order(_)
\* the records of a set by ascending offset (parent id), as the kernel
\* returns the range (root_id, ROOT_BACKREF, *)
backrefs_in_key_order(recs) ==
    IF recs = {} THEN <<>>
    ELSE LET r == CHOOSE x \in recs : \A q \in recs : x.parent <= q.parent
         IN  <<r>> \o backrefs_in_key_order(recs \ {r})

\* what btrfs_find_root_backref comes to: "ok" with res (<<>> is None),
\* "panic" for the unwrap of the Err of a failed search call, or "abort" when
\* the process ended at a misaligned header
FindResult(status, res) == [status |-> status, res |-> res]

RECURSIVE backref_walk(_, _, _, _)
\* btrfs_tree_search_cb over the records of the range and the unwrap of its
\* result, from record i with the cursor at offset `at` of args.buf. At
\* offset 0 a search call is made first: it may fail (the ? returns Err and
\* the unwrap panics) or, when no record is left, report none (Ok, res is
\* returned). Then the header is read (a misaligned header may end the
\* process), the callback overwrites res, and the next record comes in the
\* same batch or, as after the last record, with the next search call
backref_walk(recs, i, at, res) ==
    (IF at = 0 THEN {FindResult("panic", <<>>)} ELSE {})
    \cup
    (IF i > Len(recs) THEN {FindResult("ok", res)}
     ELSE UNION { IF deref = "abort" THEN {FindResult("abort", <<>>)}
                  ELSE (IF i < Len(recs)
                        THEN backref_walk(recs, i + 1,
                                 at + SizeofSearchHeader + backref_payload_len(recs[i]),
                                 <<recs[i]>>)
                        ELSE {})
                       \cup backref_walk(recs, i + 1, 0, <<recs[i]>>)
                : deref \in deref_search_header(at) })

\* find_root_backref: the callback overwrites res for every record of the
\* range (root_id, ROOT_BACKREF, *), so the record with the largest offset
\* (parent id) is returned; the set holds every outcome the kernel (its
\* batches, a failing search call) and the build allow
find_root_backref(table, root_id) ==
    backref_walk(backrefs_in_key_order({r \in table : r.root = root_id}), 1, 0, <<>>)

\* HashMap::from([(5, Rc::new(Vec::new()))])
roots_new == [id \in {FsTreeId} |-> <<>>]

\* the depth of recursion the stack of the process holds: more frames than
\* any chain of distinct roots needs
StackDepth == Cardinality(RootIds) + 1

\* the outcome of a get_root call: "ok" with the path, "panic" for the
\* unwrap of None or of a failed backref search, "stack_overflow" for a recursion the stack cannot hold,
\* "abort" for a process ended inside a backref search; m is the map after
\* the call and lookups the number of backref searches
GetRootResult(status, m, path, lookups) ==
    [status |-> status, m |-> m, path |-> path, lookups |-> lookups]

RECURSIVE get_root_name_first(_, _, _, _)
\* a plausible slip in get_root: the name is put before the parent's path
get_root_name_first(m, table, root_id, depth) ==
    IF root_id \in DOMAIN m THEN {GetRootResult("ok", m, m[root_id], 0)}
    ELSE IF depth >= StackDepth THEN {GetRootResult("stack_overflow", m, <<>>, 0)}
    ELSE UNION {
        IF found.status # "ok" THEN {GetRootResult(found.status, m, <<>>, 1)}
        ELSE IF found.res = <<>> THEN {GetRootResult("panic", m, <<>>, 1)}
        ELSE { LET path == <<found.res[1].name>> \o up.path
               IN  IF up.status # "ok"
                   THEN GetRootResult(up.status, up.m, <<>>, up.lookups + 1)
                   ELSE GetRootResult("ok",
                           [id \in DOMAIN up.m \cup {root_id} |->
                               IF id = root_id THEN path ELSE up.m[id]],
                           path, up.lookups + 1)
             : up \in get_root_name_first(m, table, found.res[1].parent, depth + 1) }
      : found \in find_root_backref(table, root_id) }

RECURSIVE get_root(_, _, _, _)
\* Roots::get_root, called at recursion depth `depth`: the set of its
\* outcomes
get_root(m, table, root_id, depth) ==
    IF root_id \in DOMAIN m THEN {GetRootResult("ok", m, m[root_id], 0)}
    ELSE IF depth >= StackDepth THEN {GetRootResult("stack_overflow", m, <<>>, 0)}
    ELSE UNION {
        IF found.status # "ok" THEN {GetRootResult(found.status, m, <<>>, 1)}
        ELSE IF found.res = <<>> THEN {GetRootResult("panic", m, <<>>, 1)}
        ELSE { LET path == up.path \o <<found.res[1].name>>
               IN  IF up.status # "ok"
                   THEN GetRootResult(up.status, up.m, <<>>, up.lookups + 1)
                   ELSE GetRootResult("ok",
                           [id \in DOMAIN up.m \cup {root_id} |->
                               IF id = root_id THEN path ELSE up.m[id]],
                           path, up.lookups + 1)
             : up \in get_root(m, table, found.res[1].parent, depth + 1) }
      : found \in find_root_backref(table, root_id) }

-----------------------------------------------------------------------------
(* The sampling loop of _main                                              *)

\* the chunk map of the sampled filesystem: one chunk of every kind, built as
\* the chunk enumeration builds it ("MIXED" is a type the match does not name)
SamplingChunks ==
    push_chunk(push_chunk(push_chunk(push_chunk(<<>>,
        0, 1000, 1, "DATA"), 1, 2000, 1, "METADATA"), 2, 3000, 1, "SYSTEM"),
        3, 4000, 1, "MIXED")

\* the u64 words the kernel may leave in the data container of a successful
\* LogicalIno call: triples (inum, offset, root)
LogicalInoReplies ==
    { <<>>,
      <<1, 0, 256>>,
      <<1, 0, 256, 1, 0, 257>>,
      <<1, 0, FsTreeId>>,
      <<4, 0, RootTreeId>>,
      <<3, 0, 256>>,
      <<1, 0, 258>>,
      <<2, 0, 257, 1, 0, FsTreeId>> }

LogicalInoItem(inum, offset, root) == [inum |-> inum, offset |-> offset, root |-> root]

\* std::slice::from_raw_parts(.., elem_cnt / 3): the words read as items
logical_ino_items(words) ==
    [i \in 1..(Len(words) \div 3) |->
        LogicalInoItem(words[3 * i - 2], words[3 * i - 1], words[3 * i])]

\* the answer of the kernel to ino_lookup(root, inum): <<>> for an error,
\* <<name>> for the path string, given character by character
ino_lookup_reply(root, inum) ==
    CASE inum = 1 -> << <<"a", "/">> >>
      [] inum = 2 -> << <<"a", "/", "b", "/">> >>
      [] inum = 4 -> << <<>> >>
      [] OTHER    -> <<>>

RECURSIVE split(_, _)
\* str.split(sep): the runs of characters between separators, empty runs
\* included
split(str, sep) ==
    IF \A i \in 1..Len(str) : str[i] # sep THEN <<str>>
    ELSE LET at == CHOOSE i \in 1..Len(str) :
                        str[i] = sep /\ \A j \in 1..(i - 1) : str[j] # sep
         IN  <<SubSeq(str, 1, at - 1)>> \o split(SubSeq(str, at + 1, Len(str)), sep)

\* a path component as a key of the children map (the paths of the model
\* have one-character components)
component(run) == IF Len(run) = 1 THEN run[1] ELSE run

\* path.to_str().unwrap().split('/').filter(|s| !s.is_empty())
inode_path(str) ==
    LET runs == SelectSeq(split(str, "/"), LAMBDA r : r # <<>>)
    IN  [i \in 1..Len(runs) |-> component(runs[i])]

\* the state the closures of one iteration work on
Sampling(status, tree, m) == [status |-> status, tree |-> tree, m |-> m]

\* the ino_lookup callback for one item: on Ok the root path is looked up and
\* the sample added under root path ++ inode path; on Err nothing is done;
\* the set of its outcomes
sample_item(st, table, item) ==
    LET reply == ino_lookup_reply(item.root, item.inum)
    IN  IF reply = <<>> THEN {st}
        ELSE { IF got.status # "ok" THEN Sampling(got.status, st.tree, got.m)
               ELSE Sampling("run",
                             add_sample(st.tree, got.path \o inode_path(reply[1])),
                             got.m)
             : got \in get_root(st.m, table, item.root, 0) }

\* a plausible slip in the loop over the items: only the first inode of a
\* shared extent is credited
sample_first_item_only(st, table, items) ==
    IF items = <<>> \/ st.status # "run" THEN {st}
    ELSE sample_item(st, table, Head(items))

RECURSIVE sample_items(_, _, _)
\* for inode in inodes { .. }: the end of the process ends the loop
sample_items(st, table, items) ==
    IF items = <<>> \/ st.status # "run" THEN {st}
    ELSE UNION { sample_items(after, table, Tail(items))
               : after \in sample_item(st, table, Head(items)) }

\* one iteration of the sampling loop as the log of a run keeps it
Iteration(chunk_type, random_offset, ret, items) ==
    [chunk_type |-> chunk_type, random_offset |-> random_offset,
     ret |-> ret, items |-> items]

-----------------------------------------------------------------------------
(* PtrReader: a cursor over the bytes of a record                          *)

\* PtrReader::new: pos and end are the addresses of the first byte and of the
\* byte after the last
PtrReader(pos, end) == [pos |-> pos, end |-> end]

ptr_reader_new(base, len) == PtrReader(base, base + len)

\* the outcome of next::<T>(): ok is FALSE for None; at is the address the
\* returned reference points to; r is the reader after the call
NextResult(ok, at, r) == [ok |-> ok, at |-> at, r |-> r, abort |-> FALSE]

\* the process ended inside next::<T>(), at &*(self.pos as *const T)
NextAbort(r) == [ok |-> FALSE, at |-> r.pos, r |-> r, abort |-> TRUE]

\* size_of::<T>() of the types read through a PtrReader
SizeofU8 == 1
SizeofSharedDataRef == 4
SizeofU64 == 8
SizeofExtentInlineRef == 9
SizeofTreeBlockInfo == 18
SizeofExtentItem == 24
SizeofExtentDataRef == 28

\* align_of::<u64>()
AlignofU64 == 8

\* align_of::<T>() of the type of the given size: the btrfs structs are
\* packed and have alignment 1, as has u8; u64 is the type of its size
align_of(size) == IF size = SizeofU64 THEN AlignofU64 ELSE 1

\* PtrReader::next::<T>() for a T of the given size: the set of its outcomes
ptr_reader_next(r, size) ==
    LET next_pos == r.pos + size
    IN  IF next_pos <= r.end
        THEN { IF deref = "abort" THEN NextAbort(r)
               ELSE NextResult(TRUE, r.pos, PtrReader(next_pos, r.end))
             : deref \in deref_outcomes(r.pos, align_of(size)) }
        ELSE {NextResult(FALSE, r.pos, r)}

\* next::<T>() for a T of alignment 1, which has one outcome
next_packed(r, size) == CHOOSE got \in ptr_reader_next(r, size) : TRUE

\* PtrReader::available
available(r) == IF r.end - r.pos > 0 THEN r.end - r.pos ELSE 0

TypeSizes == {SizeofU8, SizeofSharedDataRef, SizeofU64, SizeofExtentInlineRef,
              SizeofTreeBlockInfo, SizeofExtentItem, SizeofExtentDataRef}

-----------------------------------------------------------------------------
(* Extent accounting: the callback of the extent tree scan                 *)

BTRFS_EXTENT_ITEM_KEY == 168
BTRFS_METADATA_ITEM_KEY == 169
BTRFS_TREE_BLOCK_REF_KEY == 176
BTRFS_EXTENT_DATA_REF_KEY == 178
BTRFS_SHARED_BLOCK_REF_KEY == 182
BTRFS_SHARED_DATA_REF_KEY == 184
BTRFS_BLOCK_GROUP_ITEM_KEY == 192
BTRFS_EXTENT_FLAG_DATA == 1
BTRFS_EXTENT_FLAG_TREE_BLOCK == 2

RECURSIVE le_bytes(_, _)
\* the n bytes of a little-endian integer
le_bytes(v, n) == IF n = 0 THEN <<>> ELSE <<v % 256>> \o le_bytes(v \div 256, n - 1)

RECURSIVE le_value(_, _, _)
\* the little-endian integer in the n bytes of data that start at index at
\* (counted from 0)
le_value(data, at, n) ==
    IF n = 0 THEN 0 ELSE data[at + 1] + 256 * le_value(data, at + 1, n - 1)

\* (flags & flag) != 0 for a one-bit flag
flag_set(flags, flag) == (flags \div flag) % 2 = 1

\* an inline ref as the extent tree stores it: the type tag, then for an
\* EXTENT_DATA_REF (root, objectid, offset, count), for a SHARED_DATA_REF
\* (parent, count), for any other tag the u64 offset of btrfs_extent_inline_ref
InlineRef(tag, root, objectid) == [tag |-> tag, root |-> root, objectid |-> objectid]

inline_ref_bytes(ref) ==
    <<ref.tag>> \o
    (CASE ref.tag = BTRFS_EXTENT_DATA_REF_KEY ->
            le_bytes(ref.root, 8) \o le_bytes(ref.objectid, 8)
                \o le_bytes(0, 8) \o le_bytes(1, 4)
       [] ref.tag = BTRFS_SHARED_DATA_REF_KEY ->
            le_bytes(ref.root, 8) \o le_bytes(1, 4)
       [] OTHER -> le_bytes(ref.root, 8))

RECURSIVE inline_refs_bytes(_)
inline_refs_bytes(refs) ==
    IF refs = <<>> THEN <<>>
    ELSE inline_ref_bytes(Head(refs)) \o inline_refs_bytes(Tail(refs))

\* a record of the extent tree: sh.type_, sh.offset, and what its payload is
\* made of (the flags of the extent item, the inline refs, bytes after them)
ExtentRecord(typ, offset, flags, refs, tail) ==
    [typ |-> typ, offset |-> offset, flags |-> flags, refs |-> refs, tail |-> tail]

\* the payload of a record: btrfs_extent_item (refs, generation, flags), a
\* btrfs_tree_block_info when the TREE_BLOCK flag is set, the inline refs
record_data(rec) ==
    le_bytes(Len(rec.refs), 8) \o le_bytes(7, 8) \o le_bytes(rec.flags, 8)
    \o (IF rec.typ = BTRFS_EXTENT_ITEM_KEY /\ flag_set(rec.flags, BTRFS_EXTENT_FLAG_TREE_BLOCK)
        THEN le_bytes(0, SizeofTreeBlockInfo) ELSE <<>>)
    \o inline_refs_bytes(rec.refs) \o rec.tail

\* root_usage: HashMap<(u64, u64), u64> as a function on its keys
NoUsage == [k \in {} |-> 0]

\* root_usage.entry(key).or_default().add_assign(n)
usage_add(usage, k, n) ==
    [x \in DOMAIN usage \cup {k} |->
        IF x = k THEN (IF k \in DOMAIN usage THEN usage[k] ELSE 0) + n
        ELSE usage[x]]

\* the outcome of the callback for one record: "ok", "panic", or "abort" for
\* a process ended at a misaligned dereference
CbResult(status, usage, r) == [status |-> status, usage |-> usage, r |-> r]

RECURSIVE data_refs_loop(_, _, _, _, _)
\* while let Some(extent_inline_ref_type) = r.next::<u8>() { .. } of a DATA
\* extent item whose payload lies at address data_ptr: an unwrap of None and
\* the todo!() of an unknown tag panic; the u64 after a SHARED_DATA_REF tag is
\* read where it lies
data_refs_loop(usage, data, data_ptr, r, extent_length) ==
    LET tag == next_packed(r, SizeofU8)
    IN  IF ~tag.ok THEN {CbResult("ok", usage, r)}
        ELSE IF data[tag.at - data_ptr + 1] = BTRFS_EXTENT_DATA_REF_KEY
        THEN LET ref == next_packed(tag.r, SizeofExtentDataRef)
             IN  IF ~ref.ok THEN {CbResult("panic", usage, ref.r)}
                 ELSE data_refs_loop(
                        usage_add(usage, <<le_value(data, ref.at - data_ptr, 8),
                                           le_value(data, ref.at - data_ptr + 8, 8)>>,
                                  extent_length),
                        data, data_ptr, ref.r, extent_length)
        ELSE IF data[tag.at - data_ptr + 1] = BTRFS_SHARED_DATA_REF_KEY
        THEN UNION {
                IF off.abort THEN {CbResult("abort", usage, tag.r)}
                ELSE LET shared == next_packed(off.r, SizeofSharedDataRef)
                     IN  IF ~off.ok \/ ~shared.ok THEN {CbResult("panic", usage, tag.r)}
                         ELSE data_refs_loop(usage, data, data_ptr, shared.r,
                                             extent_length)
              : off \in ptr_reader_next(tag.r, SizeofU64) }
        ELSE {CbResult("panic", usage, tag.r)}

RECURSIVE block_refs_loop(_, _, _, _)
\* while let Some(extent_inline_ref) = r.next::<btrfs_extent_inline_ref>()
\* of a METADATA_ITEM
block_refs_loop(usage, data, data_ptr, r) ==
    LET ref == next_packed(r, SizeofExtentInlineRef)
    IN  IF ~ref.ok THEN CbResult("ok", usage, r)
        ELSE IF data[ref.at - data_ptr + 1]
                    \in {BTRFS_TREE_BLOCK_REF_KEY, BTRFS_SHARED_BLOCK_REF_KEY}
        THEN block_refs_loop(usage, data, data_ptr, ref.r)
        ELSE CbResult("panic", usage, ref.r)

\* if r.available() > 0 { panic!("data left") }
data_left_check(res) ==
    IF res.status = "ok" /\ available(res.r) > 0
    THEN CbResult("panic", res.usage, res.r)
    ELSE res

\* the closure given to tree_search_cb for the extent tree, for a record
\* whose payload lies at address data_ptr: the set of its outcomes
extent_cb(usage, sh_type, sh_offset, data, data_ptr) ==
    LET r    == ptr_reader_new(data_ptr, Len(data))
        item == next_packed(r, SizeofExtentItem)
        flags == le_value(data, item.at - data_ptr + 16, 8)
    IN  IF sh_type = BTRFS_EXTENT_ITEM_KEY
        THEN IF ~item.ok THEN {CbResult("panic", usage, r)}
             ELSE LET info == IF flag_set(flags, BTRFS_EXTENT_FLAG_TREE_BLOCK)
                              THEN next_packed(item.r, SizeofTreeBlockInfo)
                              ELSE NextResult(FALSE, item.r.pos, item.r)
                  IN  IF flag_set(flags, BTRFS_EXTENT_FLAG_DATA)
                      THEN { data_left_check(res) :
                                res \in data_refs_loop(usage, data, data_ptr, info.r,
                                                       sh_offset) }
                      ELSE {CbResult("panic", usage, info.r)}
        ELSE IF sh_type = BTRFS_METADATA_ITEM_KEY
        THEN IF ~item.ok THEN {CbResult("panic", usage, r)}
             ELSE {data_left_check(block_refs_loop(usage, data, data_ptr, item.r))}
        ELSE {CbResult("ok", usage, r)}

DataRef(root, objectid) == InlineRef(BTRFS_EXTENT_DATA_REF_KEY, root, objectid)
SharedRef(parent) == InlineRef(BTRFS_SHARED_DATA_REF_KEY, parent, 0)
OtherRef(tag) == InlineRef(tag, 0, 0)

\* the records an extent tree may hold
ExtentRecords ==
    { ExtentRecord(BTRFS_EXTENT_ITEM_KEY, 4, BTRFS_EXTENT_FLAG_DATA,
                   <<DataRef(256, 10)>>, <<>>),
      ExtentRecord(BTRFS_EXTENT_ITEM_KEY, 8, BTRFS_EXTENT_FLAG_DATA,
                   <<DataRef(256, 10), DataRef(257, 10)>>, <<>>),
      ExtentRecord(BTRFS_EXTENT_ITEM_KEY, 2, BTRFS_EXTENT_FLAG_DATA,
                   <<SharedRef(4096)>>, <<>>),
      ExtentRecord(BTRFS_EXTENT_ITEM_KEY, 4, BTRFS_EXTENT_FLAG_DATA,
                   <<DataRef(257, 11), SharedRef(4096)>>, <<>>),
      ExtentRecord(BTRFS_EXTENT_ITEM_KEY, 4, BTRFS_EXTENT_FLAG_DATA,
                   <<>>, <<>>),
      ExtentRecord(BTRFS_EXTENT_ITEM_KEY, 4, BTRFS_EXTENT_FLAG_DATA,
                   <<OtherRef(BTRFS_TREE_BLOCK_REF_KEY)>>, <<>>),
      ExtentRecord(BTRFS_EXTENT_ITEM_KEY, 4, BTRFS_EXTENT_FLAG_DATA,
                   <<DataRef(256, 11), OtherRef(BTRFS_TREE_BLOCK_REF_KEY)>>, <<>>),
      ExtentRecord(BTRFS_EXTENT_ITEM_KEY, 4, BTRFS_EXTENT_FLAG_DATA,
                   <<DataRef(256, 10)>>, <<BTRFS_EXTENT_DATA_REF_KEY, 0>>),
      ExtentRecord(BTRFS_EXTENT_ITEM_KEY, 16, BTRFS_EXTENT_FLAG_TREE_BLOCK,
                   <<OtherRef(BTRFS_TREE_BLOCK_REF_KEY)>>, <<>>),
      ExtentRecord(BTRFS_METADATA_ITEM_KEY, 0, BTRFS_EXTENT_FLAG_TREE_BLOCK,
                   <<OtherRef(BTRFS_TREE_BLOCK_REF_KEY)>>, <<>>),
      ExtentRecord(BTRFS_METADATA_ITEM_KEY, 0, BTRFS_EXTENT_FLAG_TREE_BLOCK,
                   <<OtherRef(BTRFS_SHARED_BLOCK_REF_KEY)>>, <<0>>),
      ExtentRecord(BTRFS_BLOCK_GROUP_ITEM_KEY, 4, 0, <<>>, <<0, 0, 0>>) }

RECURSIVE SeqsUpTo(_, _)
\* the sequences over S of length at most n
SeqsUpTo(S, n) ==
    IF n = 0 THEN {<<>>}
    ELSE LET shorter == SeqsUpTo(S, n - 1)
         IN  shorter \cup {Append(q, x) : q \in shorter, x \in S}

-----------------------------------------------------------------------------
(* Trees given to add and sub                                              *)

\* the trees a caller may hold: the trees of sampling passes, and a tree a
\* subtraction has left a node of total 0 in
ArgTrees ==
    {tree_of(ps) : ps \in RecordedPaths}
    \cup {sub(add(tree_of(<< <<"a">> >>), tree_of(<< <<"b", "a">> >>)),
              tree_of(<< <<"b", "a">> >>))}

\* a sequence without its i-th element
RemoveAt(q, i) == SubSeq(q, 1, i - 1) \o SubSeq(q, i + 1, Len(q))

-----------------------------------------------------------------------------
(* The parts of the state a specification does not use stay as follows.    *)

IdleKey == key = MIN /\ probe = MIN /\ succ = <<>>

IdleSearch ==
    /\ records = {}
    /\ range = ALL
    /\ args_key = [min |-> MIN, max |-> MAX]
    /\ nr_items = 0
    /\ buf = <<>>
    /\ idx = 0
    /\ ptr = 0
    /\ last_search_header = <<>>
    /\ calls = <<>>
    /\ nioctl = 0
    /\ ioctl_ret = "none"
    /\ pc = "idle"
    /\ result = "running"

IdleChunks ==
    /\ chunks = <<>>
    /\ total_chunk_length = 0
    /\ cnt = 0
    /\ chunk_ptr = 0
    /\ random_pos = 0
    /\ random_chunk = <<>>
    /\ total_samples = 0
    /\ chunk_pc = "idle"

IdleWindow ==
    /\ window = <<>>
    /\ cur = NoSamples
    /\ bytes_per_sample_sum = 0
    /\ win_added = <<>>
    /\ win_pc = "idle"

IdlePrint ==
    /\ p_tree = new
    /\ p_out = <<>>
    /\ p_pc = "idle"

IdleSampling ==
    /\ s_table = {}
    /\ s_roots = roots_new
    /\ s_tree = new
    /\ s_total = 0
    /\ s_log = <<>>
    /\ s_pc = "idle"

IdleReader ==
    /\ rd = ptr_reader_new(0, 0)
    /\ rd_len = 0
    /\ rd_sizes = <<>>
    /\ rd_last = <<>>
    /\ rd_pc = "idle"

IdleExtents ==
    /\ e_records = <<>>
    /\ e_idx = 0
    /\ e_ptr = 0
    /\ root_usage = NoUsage
    /\ e_pc = "idle"

IdleOps ==
    /\ o_tree = new
    /\ o_added = <<>>
    /\ o_n = 0
    /\ o_last = [op |-> "idle", before |-> new, arg |-> new]

IdleRoots ==
    /\ r_table = {}
    /\ r_m = roots_new
    /\ r_calls = <<>>
    /\ r_pc = "idle"

IdleTree ==
    /\ tree_a = new
    /\ added_a = NoPaths
    /\ tree_b = new
    /\ added_b = NoPaths
    /\ tree_c = new
    /\ tree_d = new
    /\ stage = "idle"

-----------------------------------------------------------------------------
(* SpecKey: SearchKey::next on every key.                                  *)

InitKey ==
    /\ key \in Keys
    /\ probe \in Keys
    /\ succ = <<>>
    /\ IdleSearch
    /\ IdleTree
    /\ IdleChunks
    /\ IdleWindow
    /\ IdlePrint
    /\ IdleSampling
    /\ IdleReader
    /\ IdleExtents
    /\ IdleOps
    /\ IdleRoots

CallNext ==
    /\ succ = <<>>
    /\ succ' = <<next(key)>>
    /\ UNCHANGED <<key, probe>>
    /\ UNCHANGED notKey

NextKey == CallNext

SpecKey == InitKey /\ [][NextKey]_vars

\* C3: for every key k other than MAX, next(k) is strictly greater than k in
\* lexicographic order, no key (here: probe, any key) lies strictly between k
\* and next(k), and the increment of offset carries into type and then into
\* objectid.
C3_NextIsSuccessor ==
    (succ # <<>> /\ key # MAX) =>
        LET n == succ[1]
        IN  /\ KeyLess(key, n)
            /\ ~(KeyLess(key, probe) /\ KeyLess(probe, n))
            /\ key.offset < MaxOffset =>
                    n = SearchKey(key.objectid, key.typ, key.offset + 1)
            /\ (key.offset = MaxOffset /\ key.typ < MaxTyp) =>
                    n = SearchKey(key.objectid, key.typ + 1, 0)
            /\ (key.offset = MaxOffset /\ key.typ = MaxTyp) =>
                    n = SearchKey(key.objectid + 1, 0, 0)

\* next() was called on a key whose increment carries through type into
\* objectid, and the probe is a key above it
C3_Witness ==
    /\ succ # <<>>
    /\ key # MAX
    /\ key.offset = MaxOffset
    /\ key.typ = MaxTyp
    /\ succ[1].objectid = key.objectid + 1
    /\ KeyLess(key, probe)

-----------------------------------------------------------------------------
(* SpecSearch: tree_search_cb over a tree held by the kernel.              *)

InitSearch ==
    /\ records \in SubsetsUpTo(Keys, MaxRecords)
    /\ range \in Ranges
    /\ args_key = [min |-> range.start, max |-> range.end]
    /\ nr_items = 0
    /\ buf = <<>>
    /\ idx = 0
    /\ ptr = 0
    /\ last_search_header = <<>>
    /\ calls = <<>>
    /\ nioctl = 0
    /\ ioctl_ret = "none"
    /\ pc = "ioctl"
    /\ result = "running"
    /\ IdleKey
    /\ IdleTree
    /\ IdleChunks
    /\ IdleWindow
    /\ IdlePrint
    /\ IdleSampling
    /\ IdleReader
    /\ IdleExtents
    /\ IdleOps
    /\ IdleRoots

\* a plausible slip: the error of the control operation is ignored and the
\* loop goes on with the next search
IoctlErrSwallowed ==
    /\ pc = "ioctl"
    /\ nioctl < MaxIoctls
    /\ nioctl' = nioctl + 1
    /\ ioctl_ret' = "err"
    /\ UNCHANGED <<records, range, args_key, nr_items, buf, idx, ptr,
                   last_search_header, calls, pc, result>>
    /\ UNCHANGED notSearch

\* ioctl::search_v2(fd, args)? fails: the error is returned at once
IoctlErr ==
    /\ pc = "ioctl"
    /\ nioctl < MaxIoctls
    /\ nioctl' = nioctl + 1
    /\ ioctl_ret' = "err"
    /\ pc' = "error"
    /\ result' = "Err"
    /\ UNCHANGED <<records, range, args_key, nr_items, buf, idx, ptr,
                   last_search_header, calls>>
    /\ UNCHANGED notSearch

\* ioctl::search_v2 succeeds and the kernel reports zero records: break, Ok(())
IoctlEmpty ==
    /\ pc = "ioctl"
    /\ nioctl < MaxIoctls
    /\ KernelBatches(args_key) = {<<>>}
    /\ nioctl' = nioctl + 1
    /\ ioctl_ret' = "ok"
    /\ nr_items' = 0
    /\ buf' = <<>>
    /\ pc' = "done"
    /\ result' = "Ok"
    /\ UNCHANGED <<records, range, args_key, idx, ptr, last_search_header, calls>>
    /\ UNCHANGED notSearch

\* ioctl::search_v2 succeeds with a batch of records: start walking the buffer
IoctlBatch ==
    /\ pc = "ioctl"
    /\ nioctl < MaxIoctls
    /\ \E b \in KernelBatches(args_key) :
        /\ b # <<>>
        /\ buf' = b
        /\ nr_items' = Len(b)
    /\ nioctl' = nioctl + 1
    /\ ioctl_ret' = "ok"
    /\ idx' = 0
    /\ ptr' = 0
    /\ last_search_header' = <<>>
    /\ pc' = "walk"
    /\ UNCHANGED <<records, range, args_key, calls, result>>
    /\ UNCHANGED notSearch

\* one turn of the for loop: take the header at the cursor, read its len (a
\* misaligned header may end the process here, before the callback), step over
\* the payload and invoke the callback
Callback ==
    /\ pc = "walk"
    /\ idx < nr_items
    /\ \E len \in PayloadLens, deref \in deref_search_header(ptr) :
        IF deref = "abort"
        THEN /\ ptr' = ptr + SizeofSearchHeader
             /\ pc' = "abort"
             /\ UNCHANGED <<idx, last_search_header, calls>>
        ELSE /\ LET search_header == buf[idx + 1]
                IN  /\ last_search_header' = <<search_header>>
                    /\ calls' = Append(calls, search_header)
             /\ ptr' = ptr + SizeofSearchHeader + len
             /\ idx' = idx + 1
             /\ UNCHANGED pc
    /\ UNCHANGED <<records, range, args_key, nr_items, buf, nioctl, ioctl_ret,
                   result>>
    /\ UNCHANGED notSearch

\* after the batch: min_* = next(last key), max_* unchanged, loop; the cursor
\* is local to the turn of the loop that ends here
Resume ==
    /\ pc = "walk"
    /\ idx = nr_items
    /\ LET min_key == next(from(last_search_header[1]))
       IN  args_key' = [args_key EXCEPT !.min = min_key]
    /\ pc' = "ioctl"
    /\ ptr' = 0
    /\ UNCHANGED <<records, range, nr_items, buf, idx, last_search_header,
                   calls, nioctl, ioctl_ret, result>>
    /\ UNCHANGED notSearch

NextSearch ==
    \/ IoctlErr
    \/ IoctlEmpty
    \/ IoctlBatch
    \/ Callback
    \/ Resume

SpecSearch == InitSearch /\ [][NextSearch]_vars

\* the records of the tree whose key lies in the range of the call
Wanted == InRange(records, range.start, range.end)

\* C1: the callback is invoked exactly once for every record whose key lies in
\* the range and for no other record, in strictly ascending key order, however
\* the kernel splits the records into batches.
C1_EachRecordOnceInKeyOrder ==
    /\ \A i \in 1..Len(calls) : calls[i] \in Wanted
    /\ \A i \in 1..(Len(calls) - 1) : KeyLess(calls[i], calls[i + 1])
    /\ pc = "done" => {calls[i] : i \in 1..Len(calls)} = Wanted

\* C2: the search terminates, also when the last record of a batch has key
\* MAX: the key the search resumes from never moves backwards, so the search
\* is never restarted from the minimum key.
C2_NeverRestartedFromMin ==
    [][KeyLeq(args_key.min, args_key'.min)]_vars

\* C10: when the search control operation fails, tree_search_cb returns that
\* error at once: no callback is invoked after the failing call and no further
\* search operation is issued.
C10_ErrorStopsSearch ==
    [][/\ ioctl_ret' = "err" => (pc' = "error" /\ result' = "Err")
       /\ ioctl_ret = "err" =>
              (calls' = calls /\ nioctl' = nioctl /\ result' = "Err")]_vars

\* the control operation failed on a later batch: callbacks were made before
\* it and records of the range are still undelivered
C10_Witness ==
    /\ ioctl_ret = "err"
    /\ pc = "error"
    /\ Len(calls) > 0
    /\ {calls[i] : i \in 1..Len(calls)} # Wanted

-----------------------------------------------------------------------------
(* SpecTree: two trees built by add_sample, then A.add(B).sub(B) on a copy *)
(* of A and B.add(A) on a copy of B.                                       *)

InitTree ==
    /\ tree_a = new
    /\ added_a = NoPaths
    /\ tree_b = new
    /\ added_b = NoPaths
    /\ tree_c = new
    /\ tree_d = new
    /\ stage = "build"
    /\ IdleKey
    /\ IdleSearch
    /\ IdleChunks
    /\ IdleWindow
    /\ IdlePrint
    /\ IdleSampling
    /\ IdleReader
    /\ IdleExtents
    /\ IdleOps
    /\ IdleRoots

\* A.add_sample(path)
AddSampleA ==
    /\ stage = "build"
    /\ Calls(added_a) < MaxSamplesA
    /\ \E path \in Paths :
        /\ tree_a' = add_sample(tree_a, path)
        /\ added_a' = WithPath(added_a, path)
    /\ UNCHANGED <<tree_b, added_b, tree_c, tree_d, stage>>
    /\ UNCHANGED notTree

\* B.add_sample(path)
AddSampleB ==
    /\ stage = "build"
    /\ Calls(added_b) < MaxSamplesB
    /\ \E path \in Paths :
        /\ tree_b' = add_sample(tree_b, path)
        /\ added_b' = WithPath(added_b, path)
    /\ UNCHANGED <<tree_a, added_a, tree_c, tree_d, stage>>
    /\ UNCHANGED notTree

\* C = SampleTree::new(); C.add(&A): a copy of A.  D likewise a copy of B.
CopyTrees ==
    /\ stage = "build"
    /\ tree_c' = add(new, tree_a)
    /\ tree_d' = add(new, tree_b)
    /\ stage' = "copied"
    /\ UNCHANGED <<tree_a, added_a, tree_b, added_b>>
    /\ UNCHANGED notTree

\* C.add(&B)
AddBToC ==
    /\ stage = "copied"
    /\ tree_c' = add(tree_c, tree_b)
    /\ stage' = "c_added"
    /\ UNCHANGED <<tree_a, added_a, tree_b, added_b, tree_d>>
    /\ UNCHANGED notTree

\* D.add(&A)
AddAToD ==
    /\ stage = "c_added"
    /\ tree_d' = add(tree_d, tree_a)
    /\ stage' = "added"
    /\ UNCHANGED <<tree_a, added_a, tree_b, added_b, tree_c>>
    /\ UNCHANGED notTree

\* C.sub(&B)
SubBFromC ==
    /\ stage = "added"
    /\ tree_c' = sub(tree_c, tree_b)
    /\ stage' = "subbed"
    /\ UNCHANGED <<tree_a, added_a, tree_b, added_b, tree_d>>
    /\ UNCHANGED notTree

NextTree ==
    \/ AddSampleA
    \/ AddSampleB
    \/ CopyTrees
    \/ AddBToC
    \/ AddAToD
    \/ SubBFromC

SpecTree == InitTree /\ [][NextTree]_vars

\* C4: after any sequence of add_sample calls on an empty tree the root total
\* is the number of calls, and every node's total is the number of added paths
\* that have the node's path as a prefix.
C4_TotalsCountSamples ==
    /\ tree_a.total = Calls(added_a)
    /\ \A path \in NodePaths(tree_a) : NodeAt(tree_a, path).total = Through(added_a, path)

\* two different paths through a common first component were added to A
C4_Witness ==
    /\ Calls(added_a) = 2
    /\ \E p, q \in DOMAIN added_a :
        /\ p # q
        /\ Len(p) = 2
        /\ Len(q) = 2
        /\ Head(p) = Head(q)
        /\ NodeAt(tree_a, <<Head(p)>>).total = 2

\* C5 as claimed: adding B to a copy of A and subtracting B again yields a tree
\* equal to A, with the same nodes and the same totals.
C5_AddSubRestoresTree ==
    stage = "subbed" => tree_c = tree_a

\* C5 as amended: adding B to a copy of A and subtracting B again yields a tree
\* that has every node of A with the total it has in A.  The nodes it has
\* beyond those of A are exactly the nodes of B that A lacks and whose parent is
\* a node of A with a total other than 0, each with total 0 and no children:
\* sub removes no node from its parent's map, and it removes all descendants of
\* a node whose total reaches 0.
C5_AddSubRestoresTotals ==
    stage = "subbed" =>
        /\ \A path \in NodePaths(tree_a) :
            /\ HasNode(tree_c, path)
            /\ NodeAt(tree_c, path).total = NodeAt(tree_a, path).total
        /\ NodePaths(tree_c) \ NodePaths(tree_a) =
            {path \in NodePaths(tree_b) \ NodePaths(tree_a) :
                /\ HasNode(tree_a, ParentPath(path))
                /\ NodeAt(tree_a, ParentPath(path)).total # 0}
        /\ \A path \in NodePaths(tree_c) \ NodePaths(tree_a) :
            /\ NodeAt(tree_c, path).total = 0
            /\ DOMAIN NodeAt(tree_c, path).children = {}

\* B was added to and subtracted from a copy of a non-empty A; one node of B
\* that A lacks stays in the result with total 0, another one is removed with
\* the children of its parent
C5_Witness ==
    /\ stage = "subbed"
    /\ tree_a.total > 0
    /\ \E kept, gone \in NodePaths(tree_b) \ NodePaths(tree_a) :
        /\ HasNode(tree_c, kept)
        /\ NodeAt(tree_c, kept).total = 0
        /\ ParentPath(gone) = kept
        /\ ~HasNode(tree_c, gone)

\* C6: A.add(B) and B.add(A) have the same nodes with the same totals, and add
\* leaves its argument unchanged.
C6_AddCommutes ==
    /\ [](stage = "added" => tree_c = tree_d)
    /\ [][(stage = "copied" => tree_b' = tree_b) /\
          (stage = "c_added" => tree_a' = tree_a)]_vars

\* A.add(B) and B.add(A) were computed for trees that share a node below the
\* root and each have a node the other lacks
C6_Witness ==
    /\ stage = "added"
    /\ NodePaths(tree_a) \ NodePaths(tree_b) # {}
    /\ NodePaths(tree_b) \ NodePaths(tree_a) # {}
    /\ (NodePaths(tree_b) \cap NodePaths(tree_a)) \ {<<>>} # {}

-----------------------------------------------------------------------------
(* SpecChunks: _main enumerates the chunk tree, then draws positions and   *)
(* looks up the chunk of each.                                             *)

InitChunks ==
    /\ chunks = <<>>
    /\ total_chunk_length = 0
    /\ cnt = 0
    /\ chunk_ptr = 0
    /\ random_pos = 0
    /\ random_chunk = <<>>
    /\ total_samples = 0
    /\ chunk_pc = "enumerate"
    /\ IdleKey
    /\ IdleSearch
    /\ IdleTree
    /\ IdleWindow
    /\ IdlePrint
    /\ IdleSampling
    /\ IdleReader
    /\ IdleExtents
    /\ IdleOps
    /\ IdleRoots

\* one turn of the for loop of btrfs_tree_search_cb over the chunk tree: the
\* header at the cursor is read (a misaligned header may end the process
\* before the callback), the callback runs, and the record was either the
\* last of its batch (the next search call starts at offset 0) or not
ChunkCb ==
    /\ chunk_pc = "enumerate"
    /\ cnt < MaxChunkRecords
    /\ \E type_ \in ChunkTreeTypes, sh_offset \in ChunkOffsets,
          length \in 0..MaxChunkLength, chunk_type \in BlockGroupTypes,
          deref \in deref_search_header(chunk_ptr), last_of_batch \in BOOLEAN :
        IF deref = "abort"
        THEN /\ chunk_pc' = "abort"
             /\ chunk_ptr' = chunk_ptr + SizeofSearchHeader
             /\ UNCHANGED <<chunks, total_chunk_length, cnt>>
        ELSE /\ IF type_ = "CHUNK_ITEM"
                THEN /\ chunks' = push_chunk(chunks, total_chunk_length, sh_offset,
                                             length, chunk_type)
                     /\ total_chunk_length' = total_chunk_length + length
                ELSE UNCHANGED <<chunks, total_chunk_length>>
             /\ cnt' = cnt + 1
             /\ \E len \in chunk_tree_payload_lens(type_) :
                    chunk_ptr' = IF last_of_batch THEN 0
                                 ELSE chunk_ptr + SizeofSearchHeader + len
             /\ UNCHANGED chunk_pc
    /\ UNCHANGED <<random_pos, random_chunk, total_samples>>
    /\ UNCHANGED notChunks

\* the chunk tree search fails: _main returns the error
EnumerationFails ==
    /\ chunk_pc = "enumerate"
    /\ chunk_ptr = 0
    /\ chunk_pc' = "error"
    /\ UNCHANGED <<chunks, total_chunk_length, cnt, chunk_ptr, random_pos,
                   random_chunk, total_samples>>
    /\ UNCHANGED notChunks

\* a search call reports no record and the search ends;
\* Uniform::new(0, total_chunk_length) panics on an empty range
EnumerationEnds ==
    /\ chunk_pc = "enumerate"
    /\ chunk_ptr = 0
    /\ chunk_pc' = IF total_chunk_length > 0 THEN "sample" ELSE "panic"
    /\ UNCHANGED <<chunks, total_chunk_length, cnt, chunk_ptr, random_pos,
                   random_chunk, total_samples>>
    /\ UNCHANGED notChunks

\* one iteration of the sampling loop up to the chunk lookup: draw a position,
\* find its chunk (unwrap panics on None), count the sample
DrawSample ==
    /\ chunk_pc = "sample"
    /\ total_samples < MaxDraws
    /\ \E pos \in 0..(total_chunk_length - 1) :
        /\ random_pos' = pos
        /\ random_chunk' = find_chunk(chunks, pos)
        /\ IF find_chunk(chunks, pos) = <<>>
           THEN /\ chunk_pc' = "panic"
                /\ UNCHANGED total_samples
           ELSE /\ total_samples' = total_samples + 1
                /\ UNCHANGED chunk_pc
    /\ UNCHANGED <<chunks, total_chunk_length, cnt, chunk_ptr>>
    /\ UNCHANGED notChunks

NextChunks ==
    \/ ChunkCb
    \/ EnumerationFails
    \/ EnumerationEnds
    \/ DrawSample

SpecChunks == InitChunks /\ [][NextChunks]_vars

\* C7: each chunk's pos is the sum of the lengths of the chunks before it,
\* total_chunk_length is the sum of all lengths, every position in
\* [0, total_chunk_length) lies in exactly one chunk, and the chunk lookup of
\* the sampling loop finds a chunk, the one that holds the drawn position.
C7_ChunkMapPartitions ==
    /\ \A i \in 1..Len(chunks) : chunks[i].pos = LengthSum(chunks, i - 1)
    /\ total_chunk_length = LengthSum(chunks, Len(chunks))
    /\ \A p \in 0..(total_chunk_length - 1) :
        Cardinality({i \in 1..Len(chunks) : chunk_holds(chunks[i], p)}) = 1
    /\ total_samples > 0 =>
        /\ random_chunk # <<>>
        /\ chunk_holds(chunks[random_chunk[1]], random_pos)
    /\ chunk_pc = "panic" => total_chunk_length = 0

\* a position inside the second of two non-empty chunks was looked up
C7_Witness ==
    /\ chunk_pc = "sample"
    /\ Len(chunks) = 2
    /\ total_samples > 0
    /\ random_chunk = <<2>>
    /\ chunks[1].chunk_length > 0
    /\ random_pos > chunks[2].pos

-----------------------------------------------------------------------------
(* SpecWindow: samples are given to an AggregatingWindow one after another *)

InitWindow ==
    /\ window = <<>>
    /\ cur = NoSamples
    /\ bytes_per_sample_sum = 0
    /\ win_added = <<>>
    /\ win_pc = "run"
    /\ IdleKey
    /\ IdleSearch
    /\ IdleTree
    /\ IdleChunks
    /\ IdlePrint
    /\ IdleSampling
    /\ IdleReader
    /\ IdleExtents
    /\ IdleOps
    /\ IdleRoots

\* AggregatingWindow.add(sample)
WindowAdd ==
    /\ win_pc = "run"
    /\ Len(win_added) < MaxWindowAdds
    /\ \E sample \in Samples :
        LET r == window_add(window, cur, bytes_per_sample_sum, sample, WindowCapacity)
        IN  /\ window' = r[1]
            /\ cur' = r[2]
            /\ bytes_per_sample_sum' = r[3]
            /\ win_added' = Append(win_added, sample)
    /\ UNCHANGED win_pc
    /\ UNCHANGED notWindow

NextWindow == WindowAdd

SpecWindow == InitWindow /\ [][NextWindow]_vars

\* C8 as claimed: after every call of add the window holds at most K samples,
\* they are the last min(K, n) of the n samples added so far, and cur equals
\* their element-wise sum: cur.total_samples is the sum of their total_samples
\* and cur.tree is the tree SampleTree::add builds from their trees.
C8_CurEqualsSumOfRetained ==
    /\ Len(window) <= WindowCapacity
    /\ window = LastOf(win_added, Min(WindowCapacity, Len(win_added)))
    /\ cur.total_samples = SumSamples(window, Len(window))
    /\ cur.tree = SumTrees(window, Len(window))

\* C8 as amended: after every call of add the window holds at most K samples,
\* they are the last min(K, n) of the n samples added so far, and
\* cur.total_samples is the sum of their total_samples.  cur.tree has every
\* node of the sum of their trees with the total it has in that sum, so at
\* every path its total is the sum of the retained trees' totals at that path
\* (a tree without a node at a path counts 0 there).  A node cur.tree has
\* beyond those is a node of the tree of an evicted sample, with total 0 and no
\* children: sub removes no node from its parent's map.
C8_WindowAggregatesRetained ==
    /\ Len(window) <= WindowCapacity
    /\ window = LastOf(win_added, Min(WindowCapacity, Len(win_added)))
    /\ cur.total_samples = SumSamples(window, Len(window))
    /\ \A path \in Paths \cup NodePaths(cur.tree) :
        TotalAt(cur.tree, path) = SumTotalsAt(window, Len(window), path)
    /\ LET retained == SumTrees(window, Len(window))
       IN  /\ \A path \in NodePaths(retained) :
                /\ HasNode(cur.tree, path)
                /\ NodeAt(cur.tree, path).total = NodeAt(retained, path).total
           /\ \A path \in NodePaths(cur.tree) \ NodePaths(retained) :
                /\ NodeAt(cur.tree, path).total = 0
                /\ DOMAIN NodeAt(cur.tree, path).children = {}
                /\ \E i \in 1..(Len(win_added) - Len(window)) :
                    HasNode(win_added[i].tree, path)

\* a sample was evicted whose tree shares a node with a retained sample and
\* whose other node is left without any retained contributor
C8_Witness ==
    /\ Len(win_added) > WindowCapacity
    /\ Len(window) = WindowCapacity
    /\ win_added[1].tree = tree_of(<< <<"a">>, <<"a", "b">> >>)
    /\ TotalAt(cur.tree, <<"a">>) > 0
    /\ HasNode(cur.tree, <<"a", "b">>)
    /\ TotalAt(cur.tree, <<"a", "b">>) = 0

-----------------------------------------------------------------------------
(* SpecPrint: a tree is built by add_samples and printed.                  *)

InitPrint ==
    /\ p_tree = new
    /\ p_out = <<>>
    /\ p_pc = "build"
    /\ IdleKey
    /\ IdleSearch
    /\ IdleTree
    /\ IdleChunks
    /\ IdleWindow
    /\ IdleSampling
    /\ IdleReader
    /\ IdleExtents
    /\ IdleOps
    /\ IdleRoots

\* p_tree.add_samples(path, n)
PrintAddSamples ==
    /\ p_pc = "build"
    /\ \E path \in Paths, n \in 1..MaxWeight :
        /\ p_tree.total + n <= MaxPrintTotal
        /\ p_tree' = add_samples(p_tree, path, n)
    /\ UNCHANGED <<p_out, p_pc>>
    /\ UNCHANGED notPrint

\* p_tree.print(w, total_samples, bytes_per_sample, min_disk_fraction)
PrintTree ==
    /\ p_pc = "build"
    /\ \E total_samples_ \in {p_tree.total, p_tree.total + 1},
          min_disk_fraction \in {<<>>, <<1, 2>>} :
        p_out' \in print(p_tree, total_samples_, 1, min_disk_fraction)
    /\ p_pc' = "printed"
    /\ UNCHANGED p_tree
    /\ UNCHANGED notPrint

NextPrint ==
    \/ PrintAddSamples
    \/ PrintTree

SpecPrint == InitPrint /\ [][NextPrint]_vars

\* C9: in the output of print the lines of the children of a node appear in
\* non-increasing order of total, and each child's line is followed by the
\* child's own subtree before the next sibling: read by its indentation every
\* line stands for a node of the tree, no node is printed twice, and a line
\* carries its node's total.
C9_ChildrenPrintedByTotal ==
    p_pc = "printed" =>
        /\ \A i \in 1..Len(p_out) :
            /\ p_out[i].depth = 0 <=> i = 1
            /\ i > 1 => p_out[i].depth <= p_out[i - 1].depth + 1
            /\ HasNode(p_tree, LinePath(p_out, i))
            /\ Len(LinePath(p_out, i)) = p_out[i].depth
            /\ p_out[i].total = NodeAt(p_tree, LinePath(p_out, i)).total
        /\ \A i, j \in 1..Len(p_out) :
            (i < j /\ p_out[i].depth = p_out[j].depth) =>
                /\ LinePath(p_out, i) # LinePath(p_out, j)
                /\ ParentLine(p_out, i) = ParentLine(p_out, j) =>
                        p_out[i].total >= p_out[j].total

\* a tree was printed in which a child with a subtree of its own comes before
\* a sibling with a smaller total
C9_Witness ==
    /\ p_pc = "printed"
    /\ Len(p_out) >= 4
    /\ \E i, j \in 1..Len(p_out) :
        /\ j = i + 2
        /\ p_out[i].depth = 1
        /\ p_out[i + 1].depth = 2
        /\ p_out[j].depth = 1
        /\ p_out[i].total > p_out[j].total

-----------------------------------------------------------------------------
(* SpecSampling: the sampling loop of _main over a fixed chunk map, with   *)
(* the kernel's answers to LogicalIno chosen freely.                       *)

InitSampling ==
    /\ s_table \in BackrefTables
    /\ s_roots = roots_new
    /\ s_tree = new
    /\ s_total = 0
    /\ s_log = <<>>
    /\ s_pc = "run"
    /\ IdleKey
    /\ IdleSearch
    /\ IdleTree
    /\ IdleChunks
    /\ IdleWindow
    /\ IdlePrint
    /\ IdleReader
    /\ IdleExtents
    /\ IdleOps
    /\ IdleRoots

\* the body of the loop for a position in a chunk that is not a DATA chunk
SampleOther(chunk) ==
    /\ s_log' = Append(s_log, Iteration(chunk.chunk_type, 0, "none", <<>>))
    /\ UNCHANGED <<s_tree, s_roots, s_pc>>

\* the body of the loop for a DATA chunk when LogicalIno fails: the Err arm
\* is empty
SampleDataErr(chunk, random_offset) ==
    /\ s_log' = Append(s_log, Iteration(chunk.chunk_type, random_offset, "err", <<>>))
    /\ UNCHANGED <<s_tree, s_roots, s_pc>>

\* the body of the loop for a DATA chunk when LogicalIno returns items
SampleDataOk(chunk, random_offset, words) ==
    LET items == logical_ino_items(words)
    IN  \E st \in sample_items(Sampling("run", s_tree, s_roots), s_table, items) :
            /\ s_log' = Append(s_log, Iteration(chunk.chunk_type, random_offset, "ok", items))
            /\ s_tree' = st.tree
            /\ s_roots' = st.m
            /\ s_pc' = st.status

\* one iteration of for _ in 0..samples
SampleIteration ==
    /\ s_pc = "run"
    /\ s_total < MaxSamples
    /\ \E pos \in 0..(LengthSum(SamplingChunks, Len(SamplingChunks)) - 1) :
        LET found == find_chunk(SamplingChunks, pos)
            chunk == SamplingChunks[found[1]]
            random_offset == chunk.chunk_offset + (pos - chunk.pos)
        IN  /\ found # <<>>
            /\ s_total' = s_total + 1
            /\ IF chunk.chunk_type = "DATA"
               THEN \/ \E words \in LogicalInoReplies :
                            SampleDataOk(chunk, random_offset, words)
                    \/ SampleDataErr(chunk, random_offset)
               ELSE SampleOther(chunk)
    /\ UNCHANGED s_table
    /\ UNCHANGED notSampling

NextSampling == SampleIteration

SpecSampling == InitSampling /\ [][NextSampling]_vars

\* the items of the logged iterations whose ino_lookup succeeds, as the
\* paths the samples belong under by the resolver map of the state
RECURSIVE ResolvedPaths(_, _)
ResolvedPaths(items, m) ==
    IF items = <<>> THEN <<>>
    ELSE LET item  == Head(items)
             reply == ino_lookup_reply(item.root, item.inum)
         IN  (IF reply = <<>> THEN <<>>
              ELSE << m[item.root] \o inode_path(reply[1]) >>)
             \o ResolvedPaths(Tail(items), m)

RECURSIVE LoggedItems(_)
\* all items of the logged iterations, in order
LoggedItems(log) ==
    IF log = <<>> THEN <<>>
    ELSE LoggedItems(SubSeq(log, 1, Len(log) - 1)) \o log[Len(log)].items

\* the number of paths of a list that pass through a node
PassingThrough(paths, node) ==
    Cardinality({i \in 1..Len(paths) : IsPrefix(node, paths[i])})

\* every logged iteration is a DATA sample whose LogicalIno items all resolve
AllResolve ==
    /\ s_pc = "run"
    /\ \A n \in 1..Len(s_log) :
        /\ s_log[n].ret = "ok"
        /\ \A i \in 1..Len(s_log[n].items) :
            ino_lookup_reply(s_log[n].items[i].root, s_log[n].items[i].inum) # <<>>

\* C11: DATA samples whose LogicalIno items all resolve to paths add one unit
\* per item: the root total is the number of items returned over the run and
\* every node's total is the number of items whose path passes through it.
C11_OneSamplePerItem ==
    AllResolve =>
        LET paths == ResolvedPaths(LoggedItems(s_log), s_roots)
        IN  /\ s_tree.total = Len(LoggedItems(s_log))
            /\ \A node \in NodePaths(s_tree) \cup {paths[i] : i \in 1..Len(paths)} :
                TotalAt(s_tree, node) = PassingThrough(paths, node)

\* two samples that both resolve to the same two inodes: root total 4, each
\* of the two paths total 2
C11_Witness ==
    /\ AllResolve
    /\ Len(s_log) = 2
    /\ \A n \in 1..2 : s_log[n].items = logical_ino_items(<<1, 0, 256, 1, 0, 257>>)
    /\ s_tree.total = 4
    /\ s_roots[256] # s_roots[257]
    /\ TotalAt(s_tree, s_roots[256] \o <<"a">>) >= 2
    /\ TotalAt(s_tree, s_roots[257] \o <<"a">>) >= 2

\* C12: when LogicalIno fails for a DATA sample the sample is recorded under
\* DATA/ERROR/LOGICAL_TO_INO: if it fails for all N samples that node has
\* total N.
C12_LogicalInoErrorRecorded ==
    (s_log # <<>> /\ \A n \in 1..Len(s_log) : s_log[n].ret = "err") =>
        TotalAt(s_tree, <<"DATA", "ERROR", "LOGICAL_TO_INO">>) = Len(s_log)

\* the items of the log whose ino_lookup succeeds
ResolvedItems ==
    LET items == LoggedItems(s_log)
    IN  {items[i] : i \in {j \in 1..Len(items) :
            ino_lookup_reply(items[j].root, items[j].inum) # <<>>}}

\* C13: a LogicalIno item owned by the ROOT tree (root id 5 in the resolver's
\* seed, 1 on disk) is dropped: when every item of the run is such an item the
\* run goes on, no node is added to the sample tree under any path, and every
\* iteration is counted in total_samples.
C13_RootTreeItemsDropped ==
    (/\ ResolvedItems # {}
     /\ \A item \in ResolvedItems : item.root \in {FsTreeId, RootTreeId}) =>
        /\ s_pc = "run"
        /\ NodePaths(s_tree) = {<<>>}
        /\ s_total = Len(s_log)

\* a root id for which the ROOT tree holds no chain of backrefs to a root the
\* resolver knows
Unresolvable(table, root_id) ==
    \A got \in get_root(roots_new, table, root_id, 0) : got.status = "panic"

\* C14: when an item's root has no root-backref record (itself or an ancestor)
\* the lookup fails, the resolver map is left without that root, and the
\* sampling run continues with the sample dropped.
C14_UnresolvableRootSkipsSample ==
    \A item \in ResolvedItems :
        (item.root # FsTreeId /\ Unresolvable(s_table, item.root)) =>
            /\ s_pc = "run"
            /\ item.root \notin DOMAIN s_roots

-----------------------------------------------------------------------------
(* SpecReader: a PtrReader over a buffer of any length, read with next     *)
(* calls of any of the sizes.                                              *)

\* the addresses a buffer may start at
BufferBases == {0, 4096}

InitReader ==
    /\ rd_len \in 0..MaxBufLen
    /\ \E base \in BufferBases : rd = ptr_reader_new(base, rd_len)
    /\ rd_sizes = <<>>
    /\ rd_last = <<>>
    /\ rd_pc = "run"
    /\ IdleKey
    /\ IdleSearch
    /\ IdleTree
    /\ IdleChunks
    /\ IdleWindow
    /\ IdlePrint
    /\ IdleSampling
    /\ IdleExtents
    /\ IdleOps
    /\ IdleRoots

\* r.next::<T>()
ReaderNext ==
    /\ rd_pc = "run"
    /\ Len(rd_sizes) < MaxReads
    /\ \E size \in TypeSizes :
        \E got \in ptr_reader_next(rd, size) :
            /\ rd' = got.r
            /\ rd_sizes' = IF got.ok THEN Append(rd_sizes, size) ELSE rd_sizes
            /\ rd_last' = <<[size |-> size, before |-> rd, ok |-> got.ok,
                             at |-> got.at, abort |-> got.abort]>>
            /\ rd_pc' = IF got.abort THEN "abort" ELSE "run"
    /\ UNCHANGED rd_len
    /\ UNCHANGED notReader

NextReader == ReaderNext

SpecReader == InitReader /\ [][NextReader]_vars

RECURSIVE SumSizes(_)
SumSizes(sizes) == IF sizes = <<>> THEN 0 ELSE Head(sizes) + SumSizes(Tail(sizes))

\* C17: a next call succeeds and advances the position by the size exactly
\* when at least that many bytes remain, otherwise it reports exhaustion and
\* leaves the position unchanged; the position never passes the end and
\* available() is L minus the sum of the sizes of the successful reads.
C17_ReaderStaysInBuffer ==
    /\ rd.pos <= rd.end
    /\ available(rd) = rd_len - SumSizes(rd_sizes)
    /\ rd_last # <<>> =>
        LET call == rd_last[1]
        IN  /\ call.ok <=> available(call.before) >= call.size
            /\ call.ok => rd.pos = call.before.pos + call.size /\ call.at = call.before.pos
            /\ ~call.ok => rd = call.before

-----------------------------------------------------------------------------
(* SpecExtents: the pass of subvol_usage over the extent tree.             *)

InitExtents ==
    /\ e_records \in SeqsUpTo(ExtentRecords, MaxExtentRecords)
    /\ e_idx = 0
    /\ e_ptr = 0
    /\ root_usage = NoUsage
    /\ e_pc = "scan"
    /\ IdleKey
    /\ IdleSearch
    /\ IdleTree
    /\ IdleChunks
    /\ IdleWindow
    /\ IdlePrint
    /\ IdleSampling
    /\ IdleReader
    /\ IdleOps
    /\ IdleRoots

\* one turn of the for loop of tree_search_cb over the extent tree: the
\* header at the cursor is read (a misaligned header may end the process
\* before the callback), the closure runs on the payload after the header,
\* and the record was the last of its batch or not (the last record of the
\* tree is)
ExtentCb ==
    /\ e_pc = "scan"
    /\ e_idx < Len(e_records)
    /\ LET rec  == e_records[e_idx + 1]
           data == record_data(rec)
       IN  \E deref \in deref_search_header(e_ptr),
              last_of_batch \in (IF e_idx + 1 = Len(e_records) THEN {TRUE} ELSE BOOLEAN) :
            IF deref = "abort"
            THEN /\ e_pc' = "abort"
                 /\ e_ptr' = e_ptr + SizeofSearchHeader
                 /\ UNCHANGED <<e_idx, root_usage>>
            ELSE \E res \in extent_cb(root_usage, rec.typ, rec.offset, data,
                                      e_ptr + SizeofSearchHeader) :
                    /\ root_usage' = res.usage
                    /\ e_pc' = IF res.status = "ok" THEN "scan" ELSE res.status
                    /\ e_idx' = e_idx + 1
                    /\ e_ptr' = IF last_of_batch THEN 0
                                ELSE e_ptr + SizeofSearchHeader + Len(data)
    /\ UNCHANGED e_records
    /\ UNCHANGED notExtents

\* a search control operation fails: the ? returns the error from main
ExtentScanFails ==
    /\ e_pc = "scan"
    /\ e_ptr = 0
    /\ e_pc' = "error"
    /\ UNCHANGED <<e_records, e_idx, e_ptr, root_usage>>
    /\ UNCHANGED notExtents

\* the kernel has no more records: tree_search_cb returns Ok
ExtentScanEnds ==
    /\ e_pc = "scan"
    /\ e_idx = Len(e_records)
    /\ e_ptr = 0
    /\ e_pc' = "done"
    /\ UNCHANGED <<e_records, e_idx, e_ptr, root_usage>>
    /\ UNCHANGED notExtents

NextExtents ==
    \/ ExtentCb
    \/ ExtentScanFails
    \/ ExtentScanEnds

SpecExtents == InitExtents /\ [][NextExtents]_vars

\* the inline EXTENT_DATA_REFs of a record of a DATA extent, in order
DataRefsOf(rec) ==
    IF rec.typ = BTRFS_EXTENT_ITEM_KEY /\ flag_set(rec.flags, BTRFS_EXTENT_FLAG_DATA)
    THEN SelectSeq(rec.refs, LAMBDA ref : ref.tag = BTRFS_EXTENT_DATA_REF_KEY)
    ELSE <<>>

RECURSIVE OwnedLength(_, _, _)
\* the sum of the lengths of the first n records whose first inline data ref
\* belongs to one of the given (root, objectid) pairs
OwnedLength(recs, n, owners) ==
    IF n = 0 THEN 0
    ELSE OwnedLength(recs, n - 1, owners) +
         (IF DataRefsOf(recs[n]) # <<>>
             /\ <<DataRefsOf(recs[n])[1].root, DataRefsOf(recs[n])[1].objectid>> \in owners
          THEN recs[n].offset ELSE 0)

RECURSIVE UsageSum(_, _)
\* the sum of the values of root_usage over a set of keys
UsageSum(usage, ks) ==
    IF ks = {} THEN 0
    ELSE LET k == CHOOSE x \in ks : TRUE
         IN  usage[k] + UsageSum(usage, ks \ {k})

\* every (root, objectid) pair the records name
Owners == {<<root, objectid>> : root \in {256, 257}, objectid \in {10, 11}}

\* C15: the length of each DATA EXTENT_ITEM is added to root_usage exactly
\* once, under the (root, objectid) of its first inline EXTENT_DATA_REF: the
\* values of root_usage sum to the lengths of the scanned DATA extents that
\* carry an inline data ref, however many data refs an extent has.
C15_ExtentCountedOnce ==
    e_pc \in {"scan", "done"} =>
        /\ UsageSum(root_usage, DOMAIN root_usage) = OwnedLength(e_records, e_idx, Owners)
        /\ \A k \in Owners :
            (IF k \in DOMAIN root_usage THEN root_usage[k] ELSE 0)
                = OwnedLength(e_records, e_idx, {k})

\* a record of a DATA extent with an inline ref of a type the scan does not
\* know
HasUnknownTag(rec) ==
    /\ rec.typ = BTRFS_EXTENT_ITEM_KEY
    /\ flag_set(rec.flags, BTRFS_EXTENT_FLAG_DATA)
    /\ \E i \in 1..Len(rec.refs) :
        rec.refs[i].tag \notin {BTRFS_EXTENT_DATA_REF_KEY, BTRFS_SHARED_DATA_REF_KEY}

\* C16: an inline ref with an unknown type tag ends the parsing of its record
\* only: the scan goes on to the later records, and what was attributed
\* before the unknown tag is kept.
C16_UnknownTagSkipsRecord ==
    \A i \in 1..e_idx :
        HasUnknownTag(e_records[i]) =>
            /\ e_pc \in {"scan", "done", "error"}
            /\ \A j \in 1..Len(DataRefsOf(e_records[i])) :
                <<DataRefsOf(e_records[i])[j].root,
                  DataRefsOf(e_records[i])[j].objectid>> \in DOMAIN root_usage

-----------------------------------------------------------------------------
(* SpecOps: one SampleTree under any sequence of add_sample, add and sub,  *)
(* where sub takes away a tree that was added before and not yet           *)
(* subtracted (the discipline of the sliding window).                      *)

InitOps ==
    /\ o_tree = new
    /\ o_added = <<>>
    /\ o_n = 0
    /\ o_last = [op |-> "none", before |-> new, arg |-> new]
    /\ IdleKey
    /\ IdleSearch
    /\ IdleTree
    /\ IdleChunks
    /\ IdleWindow
    /\ IdlePrint
    /\ IdleSampling
    /\ IdleReader
    /\ IdleExtents
    /\ IdleRoots

\* o_tree.add_sample(path)
OpsAddSample ==
    /\ o_n < MaxOps
    /\ \E path \in Paths : o_tree' = add_sample(o_tree, path)
    /\ o_n' = o_n + 1
    /\ o_last' = [op |-> "add_sample", before |-> o_tree, arg |-> new]
    /\ UNCHANGED o_added
    /\ UNCHANGED notOps

\* o_tree.add(&t)
OpsAdd ==
    /\ o_n < MaxOps
    /\ \E t \in ArgTrees :
        /\ o_tree' = add(o_tree, t)
        /\ o_added' = Append(o_added, t)
        /\ o_last' = [op |-> "add", before |-> o_tree, arg |-> t]
    /\ o_n' = o_n + 1
    /\ UNCHANGED notOps

\* o_tree.sub(&t) for a tree t added before and not subtracted since
OpsSub ==
    /\ o_n < MaxOps
    /\ \E i \in 1..Len(o_added) :
        /\ o_tree' = sub(o_tree, o_added[i])
        /\ o_added' = RemoveAt(o_added, i)
        /\ o_last' = [op |-> "sub", before |-> o_tree, arg |-> o_added[i]]
    /\ o_n' = o_n + 1
    /\ UNCHANGED notOps

NextOps ==
    \/ OpsAddSample
    \/ OpsAdd
    \/ OpsSub

SpecOps == InitOps /\ [][NextOps]_vars

\* C18: in every tree reached by add_sample, add and sub (each sub taking away
\* a tree added before), a node whose total is 0 has no children.
C18_ZeroTotalHasNoChildren ==
    \A path \in NodePaths(o_tree) :
        NodeAt(o_tree, path).total = 0 => NodeAt(o_tree, path).children = NoChildren

\* a subtraction brought a node that had a child to total 0 while the tree
\* as a whole kept samples
C18_Witness ==
    /\ o_last.op = "sub"
    /\ o_tree.total > 0
    /\ \E k \in DOMAIN o_tree.children :
        /\ o_tree.children[k].total = 0
        /\ o_tree.children[k].children = NoChildren
        /\ o_last.before.children[k].children # NoChildren

-----------------------------------------------------------------------------
(* SpecRoots: a resolver under any sequence of get_root calls.             *)

InitRoots ==
    /\ r_table \in BackrefTables
    /\ r_m = roots_new
    /\ r_calls = <<>>
    /\ r_pc = "run"
    /\ IdleKey
    /\ IdleSearch
    /\ IdleTree
    /\ IdleChunks
    /\ IdleWindow
    /\ IdlePrint
    /\ IdleSampling
    /\ IdleReader
    /\ IdleExtents
    /\ IdleOps

\* roots.get_root(root_id)
GetRoot ==
    /\ r_pc = "run"
    /\ Len(r_calls) < MaxGetRoots
    /\ \E root_id \in RootIds :
        \E got \in get_root(r_m, r_table, root_id, 0) :
            /\ r_m' = got.m
            /\ r_pc' = IF got.status = "ok" THEN "run" ELSE got.status
            /\ r_calls' = Append(r_calls,
                            [root_id |-> root_id, before |-> r_m,
                             status |-> got.status, path |-> got.path,
                             lookups |-> got.lookups])
    /\ UNCHANGED r_table
    /\ UNCHANGED notRoots

NextRoots == GetRoot

SpecRoots == InitRoots /\ [][NextRoots]_vars

\* C19: the map holds 5 -> empty list; an entry once inserted stays as it is;
\* the entry of any other id is the entry of the parent named by a backref
\* record of the id, followed by that record's name; a get_root for an id the
\* map holds returns the memoized list without a backref search.
C19_RootsMemoized ==
    /\ FsTreeId \in DOMAIN r_m /\ r_m[FsTreeId] = <<>>
    /\ \A id \in DOMAIN r_m \ {FsTreeId} :
        \E ref \in r_table :
            /\ ref.root = id
            /\ ref.parent \in DOMAIN r_m
            /\ r_m[id] = r_m[ref.parent] \o <<ref.name>>
    /\ \A n \in 1..Len(r_calls) :
        LET call == r_calls[n]
        IN  /\ \A id \in DOMAIN call.before :
                id \in DOMAIN r_m /\ r_m[id] = call.before[id]
            /\ call.root_id \in DOMAIN call.before =>
                /\ call.status = "ok"
                /\ call.lookups = 0
                /\ call.path = call.before[call.root_id]
            /\ call.status = "ok" => r_m[call.root_id] = call.path

\* a root two levels below root 5 was resolved and then asked for again
C19_Witness ==
    /\ Len(r_calls) >= 2
    /\ r_calls[1].root_id = 257
    /\ r_calls[1].status = "ok"
    /\ r_calls[1].lookups = 2
    /\ Len(r_calls[1].path) = 2
    /\ r_calls[2].root_id = 257
    /\ r_calls[2].lookups = 0
    /\ r_calls[2].path = r_calls[1].path

\* C20: get_root terminates for every backref relation: it returns after at
\* most one backref lookup per uncached ancestor, and when the parent links
\* form a cycle the recursion is cut off and the call returns a failure
\* instead of using up the stack.
C20_GetRootTerminates ==
    /\ r_pc # "stack_overflow"
    /\ \A n \in 1..Len(r_calls) :
        r_calls[n].lookups <= Cardinality(RootIds \ DOMAIN r_calls[n].before)

RECURSIVE SubStaysUnsigned(_, _)
\* at every node sub visits, self.total -= other.total does not go below 0:
\* sub stops at a node that reaches 0 and otherwise goes on into the children
\* of other that self has
SubStaysUnsigned(self, other) ==
    /\ self.total >= other.total
    /\ self.total - other.total # 0 =>
        \A k \in DOMAIN other.children \cap DOMAIN self.children :
            SubStaysUnsigned(self.children[k], other.children[k])

\* C21: when every sub takes away a tree that was added before and not
\* subtracted since, no total is decremented below 0: at every node a sub
\* visits the total before the subtraction is at least the total of the
\* corresponding node of the subtracted tree.  This holds of the sub that was
\* just made and of every sub the discipline allows next.
C21_SubNeverUnderflows ==
    /\ o_last.op = "sub" => SubStaysUnsigned(o_last.before, o_last.arg)
    /\ \A i \in 1..Len(o_added) : SubStaysUnsigned(o_tree, o_added[i])

\* a sub went into a child that both trees have, took part of its total away
\* and left the rest
C21_Witness ==
    /\ o_last.op = "sub"
    /\ \E k \in DOMAIN o_last.arg.children \cap DOMAIN o_last.before.children :
        /\ o_last.arg.children[k].total > 0
        /\ o_last.before.children[k].total > o_last.arg.children[k].total
        /\ o_tree.children[k].total
            = o_last.before.children[k].total - o_last.arg.children[k].total

====
